---------------------------- MODULE Spec2Model ----------------------------
(***************************************************************************)
(* Release-note generation pipeline of release-notes-app                   *)
(* (services/release_note_service.py, services/search_service.py,          *)
(* services/openai_service.py, services/parsing_service.py).               *)
(* and of the function app that serves it (function_app.py,                *)
(* utils/validation.py).                                                   *)
(*                                                                         *)
(* Text is modelled as a sequence of tokens.  The tokens "{", "}", "[",    *)
(* "]", ":", "," and the double quote are the characters the parsers look  *)
(* at; every other token is a run of characters holding none of them.      *)
(***************************************************************************)
EXTENDS Integers, Sequences, FiniteSets, TLC

(* ------------------------------ bounds --------------------------------- *)

\* longest string value (in tokens) of a generated model answer
MaxStrLen == 1

\* longest list (queries, keywords) in a generated model answer
MaxListLen == 2

\* longest run of prose put before a JSON object in a generated model answer
MaxProseLen == 1

\* most queries in a planner answer of a pipeline run
MaxQueries == 2

\* most keywords in a keyword-extractor answer of a pipeline run
MaxKeywords == 2

(* ------------------------------- text ---------------------------------- *)

QUOTE == "\""

LBRACE == "{"

RBRACE == "}"

\* tokens that may occur inside a JSON string or in prose
WordTokens == {"w", "{", "}"}

\* JSON literals that are neither string, array nor object
LiteralTokens == {"null", "1", "true", "false"}

\* all texts over a token set up to a length
TextsUpTo(tokens, n) == UNION {[1..k -> tokens] : k \in 0..n}

\* index of the first occurrence of tok in t at or after i, 0 when there is none
FindFrom(t, i, tok) ==
    IF \E j \in i..Len(t) : t[j] = tok
    THEN CHOOSE j \in i..Len(t) : t[j] = tok /\ \A k \in i..(j - 1) : t[k] # tok
    ELSE 0

\* Python's `needle in haystack` on strings
Contains(haystack, needle) ==
    \E i \in 1..(Len(haystack) - Len(needle) + 1) :
        SubSeq(haystack, i, i + Len(needle) - 1) = needle

(* ------------------------------- JSON ---------------------------------- *)

StrV(s) == [t |-> "str", v |-> s]

ArrV(items) == [t |-> "arr", v |-> items]

ObjV(pairs) == [t |-> "obj", v |-> pairs]

LitV(tok) == [t |-> "lit", v |-> <<tok>>]

ParseFail == [ok |-> FALSE, val |-> LitV("null"), next |-> 0]

ParseOk(val, next) == [ok |-> TRUE, val |-> val, next |-> next]

\* a JSON string: from a quote to the next quote
ParseString(t, i) ==
    IF i <= Len(t) /\ t[i] = QUOTE
    THEN LET j == FindFrom(t, i + 1, QUOTE)
         IN IF j = 0 THEN ParseFail
            ELSE ParseOk(StrV(SubSeq(t, i + 1, j - 1)), j + 1)
    ELSE ParseFail

RECURSIVE ParseValue(_, _)
RECURSIVE ParseElements(_, _, _)
RECURSIVE ParseMembers(_, _, _)

ParseValue(t, i) ==
    IF i > Len(t) THEN ParseFail
    ELSE IF t[i] = QUOTE THEN ParseString(t, i)
    ELSE IF t[i] = "["
         THEN IF i + 1 <= Len(t) /\ t[i + 1] = "]"
              THEN ParseOk(ArrV(<<>>), i + 2)
              ELSE ParseElements(t, i + 1, <<>>)
    ELSE IF t[i] = LBRACE
         THEN IF i + 1 <= Len(t) /\ t[i + 1] = RBRACE
              THEN ParseOk(ObjV(<<>>), i + 2)
              ELSE ParseMembers(t, i + 1, <<>>)
    ELSE IF t[i] \in LiteralTokens THEN ParseOk(LitV(t[i]), i + 1)
    ELSE ParseFail

ParseElements(t, i, acc) ==
    LET r == ParseValue(t, i)
    IN IF ~r.ok \/ r.next > Len(t) THEN ParseFail
       ELSE IF t[r.next] = "," THEN ParseElements(t, r.next + 1, Append(acc, r.val))
       ELSE IF t[r.next] = "]" THEN ParseOk(ArrV(Append(acc, r.val)), r.next + 1)
       ELSE ParseFail

ParseMembers(t, i, acc) ==
    LET k == ParseString(t, i)
    IN IF ~k.ok \/ k.next > Len(t) \/ t[k.next] # ":" THEN ParseFail
       ELSE LET r == ParseValue(t, k.next + 1)
                m == [k |-> k.val.v, v |-> r.val]
            IN IF ~r.ok \/ r.next > Len(t) THEN ParseFail
               ELSE IF t[r.next] = "," THEN ParseMembers(t, r.next + 1, Append(acc, m))
               ELSE IF t[r.next] = RBRACE THEN ParseOk(ObjV(Append(acc, m)), r.next + 1)
               ELSE ParseFail

\* json.loads: the whole text is one value; ok = FALSE is json.JSONDecodeError
json_loads(t) ==
    LET r == ParseValue(t, 1)
    IN IF r.ok /\ r.next = Len(t) + 1 THEN r ELSE ParseFail

\* dict.get(key, default) on a parsed object: the last member named key wins
DictGet(obj, key, default) ==
    LET hits == {i \in 1..Len(obj.v) : obj.v[i].k = key}
    IN IF hits = {} THEN default
       ELSE obj.v[CHOOSE i \in hits : \A j \in hits : j <= i].v

\* json.dumps of a string, of a list of strings
DumpString(s) == <<QUOTE>> \o s \o <<QUOTE>>

RECURSIVE DumpItems(_)
DumpItems(l) ==
    IF l = <<>> THEN <<>>
    ELSE IF Len(l) = 1 THEN DumpString(l[1])
    ELSE DumpString(l[1]) \o <<",">> \o DumpItems(Tail(l))

DumpList(l) == <<"[">> \o DumpItems(l) \o <<"]">>

\* json.dumps of a value: None is written null
RECURSIVE DumpValue(_)
RECURSIVE DumpValues(_)
RECURSIVE DumpMembers(_)
DumpValue(val) ==
    CASE val.t = "str" -> DumpString(val.v)
      [] val.t = "lit" -> val.v
      [] val.t = "arr" -> <<"[">> \o DumpValues(val.v) \o <<"]">>
      [] val.t = "obj" -> <<LBRACE>> \o DumpMembers(val.v) \o <<RBRACE>>
      [] OTHER -> <<"null">>

DumpValues(items) ==
    IF items = <<>> THEN <<>>
    ELSE IF Len(items) = 1 THEN DumpValue(items[1])
    ELSE DumpValue(items[1]) \o <<",">> \o DumpValues(Tail(items))

DumpMembers(members) ==
    IF members = <<>> THEN <<>>
    ELSE LET m == DumpString(members[1].k) \o <<":">> \o DumpValue(members[1].v)
         IN IF Len(members) = 1 THEN m
            ELSE m \o <<",">> \o DumpMembers(Tail(members))

(* --------------------------- ParsingService ---------------------------- *)

\* the search with the greedy pattern "{.*}": from the first "{" to the last "}"
JsonMatch_greedy(response) ==
    LET i == FindFrom(response, 1, LBRACE)
        after == IF i = 0 THEN {} ELSE {j \in (i + 1)..Len(response) : response[j] = RBRACE}
    IN IF after = {} THEN [found |-> FALSE, group |-> <<>>]
       ELSE [found |-> TRUE,
             group |-> SubSeq(response, i, CHOOSE j \in after : \A k \in after : k <= j)]

\* re.search(r"{.*?}", response, re.DOTALL): from the first "{" to the nearest
\* following "}"; found = FALSE when there is no such substring
JsonMatch(response) ==
    LET i == FindFrom(response, 1, LBRACE)
        j == IF i = 0 THEN 0 ELSE FindFrom(response, i + 1, RBRACE)
    IN IF j = 0 THEN [found |-> FALSE, group |-> <<>>]
       ELSE [found |-> TRUE, group |-> SubSeq(response, i, j)]

NoneV == [t |-> "none", v |-> <<>>]

Returns(val) == [kind |-> "return", val |-> val]

Raises(exc) == [kind |-> "raise", val |-> StrV(<<exc>>)]

\* len(x) is defined for str, list and dict, and raises TypeError otherwise
HasLen(val) == val.t \in {"str", "arr", "obj"}

\* x[:n] is defined for str and list, and raises TypeError otherwise
Sliceable(val) == val.t \in {"str", "arr"}

WorkItemDetailsV(sd, ci, at, kw) ==
    [t |-> "details", short_description |-> sd, customer_impact |-> ci,
     activity_type |-> at, keywords |-> kw]

parse_work_item_details(response) ==
    LET m == JsonMatch(response)
        data == json_loads(m.group)
        sd == DictGet(data.val, <<"ShortDescription">>, StrV(<<>>))
    IN IF ~m.found THEN Returns(NoneV)
       ELSE IF ~data.ok THEN Returns(NoneV)
       ELSE IF ~Sliceable(sd) THEN Raises("TypeError")
       ELSE Returns(WorkItemDetailsV(
                sd,
                DictGet(data.val, <<"CustomerImpact">>, StrV(<<>>)),
                DictGet(data.val, <<"ActivityType">>, StrV(<<>>)),
                DictGet(data.val, <<"Keywords">>, ArrV(<<>>))))

\* the body shared by parse_queries and parse_keywords
parse_list_field(response, field) ==
    LET m == JsonMatch(response)
        data == json_loads(m.group)
        got == DictGet(data.val, field, ArrV(<<>>))
    IN IF ~m.found THEN Returns(ArrV(<<>>))
       ELSE IF ~data.ok THEN Returns(ArrV(<<>>))
       ELSE IF ~HasLen(got) THEN Raises("TypeError")
       ELSE Returns(got)

parse_queries(response) == parse_list_field(response, <<"queries">>)

parse_keywords(response) == parse_list_field(response, <<"kwrds">>)


\* sep.join(items) on the texts of a list of strings
RECURSIVE Join(_, _)
Join(items, sep) ==
    IF items = <<>> THEN <<>>
    ELSE IF Len(items) = 1 THEN items[1].v
    ELSE items[1].v \o sep \o Join(Tail(items), sep)

\* keywords_to_string joining with a comma and a space
keywords_to_string_spaced(keywords) == StrV(Join(keywords.v, <<",", " ">>))

\* ParsingService.keywords_to_string, for a list of strings
keywords_to_string(keywords) == StrV(Join(keywords.v, <<",">>))

(* ------------------------------ settings ------------------------------- *)

\* AppConfig.default_semantic_config
default_semantic_config == <<"vector-1720899450481", "-semantic-configuration">>

\* str.replace(old, ""): every occurrence of the token old is removed
RECURSIVE RemoveToken(_, _)
RemoveToken(s, old) ==
    IF s = <<>> THEN <<>>
    ELSE IF Head(s) = old THEN RemoveToken(Tail(s), old)
    ELSE <<Head(s)>> \o RemoveToken(Tail(s), old)

get_search_index(semantic_config) == RemoveToken(semantic_config, "-semantic-configuration")

\* Python truthiness of a value
Truthy(val) ==
    IF val.t = "none" THEN FALSE
    ELSE IF val.t = "lit" THEN val.v \notin {<<"null">>, <<"false">>, <<"0">>}
    ELSE val.v # <<>>

\* `a or b`
OrElse(a, b) == IF Truthy(a) THEN a ELSE b

\* get_semantic_config answering the default whatever the request names
get_semantic_config_default(documentation_config) == StrV(default_semantic_config)

get_semantic_config(documentation_config) ==
    OrElse(documentation_config, StrV(default_semantic_config))

(* ---------------------------- OpenAIService ---------------------------- *)

LLMParameters(max_tokens, temperature, use_search, use_internal_doc) ==
    [max_tokens |-> max_tokens, temperature |-> temperature,
     use_search |-> use_search, use_internal_doc |-> use_internal_doc,
     strictness |-> 3]

\* PromptTemplates.<name>.format(*params)
Prompt(name, params) == [name |-> name, params |-> params]

\* OpenAIService._build_search_config: additional_info and
\* parameters.use_internal_doc are received and not read
_build_search_config(prompt, additional_info, semantic_config, parameters) ==
    LET sc == OrElse(semantic_config, StrV(default_semantic_config)).v
    IN [t |-> "azure_search",
        index_name |-> get_search_index(sc),
        semantic_configuration |-> sc,
        role_information |-> prompt,
        strictness |-> parameters.strictness]

NoSearch == [t |-> "none"]

\* the arguments of client.chat.completions.create as generate_completion
\* builds them; content.addendum is the "\nAdditional Details: ..." suffix
CompletionArgs(prompt, additional_info, parameters, semantic_config) ==
    [content |-> [prompt |-> prompt,
                  addendum |-> IF Truthy(additional_info) /\ ~parameters.use_search
                               THEN additional_info ELSE NoneV],
     max_tokens |-> parameters.max_tokens,
     temperature |-> parameters.temperature,
     top_p |-> IF parameters.use_search THEN "0.5" ELSE "1",
     frequency_penalty |-> IF parameters.use_search THEN "0.5" ELSE "0",
     extra_body |-> IF parameters.use_search
                    THEN _build_search_config(prompt, additional_info,
                                              semantic_config, parameters)
                    ELSE NoSearch]

\* len(additional_info) raises before anything is sent when additional_info
\* is truthy and has no length
FailsBeforeSend(additional_info) == Truthy(additional_info) /\ ~HasLen(additional_info)


(* ---------------------------- SearchService ---------------------------- *)

NoRelevantMarker == <<"No relevant information found in the documentation">>

RequestedMarker == <<"requested information is not">>

\* _is_no_information_response with the second indicator left out
is_no_information_response_first_only(content) ==
    Contains(content.v, NoRelevantMarker)

_is_no_information_response(content) ==
    \/ Contains(content.v, NoRelevantMarker)
    \/ Contains(content.v, RequestedMarker)

SearchResult(query, content) == [query |-> query, content |-> content]

\* d[key] = value on a Python dict kept as its sequence of items: an existing
\* key keeps its place and takes the new value, a new key goes last
RECURSIVE DictPut(_, _, _)
DictPut(d, key, value) ==
    IF d = <<>> THEN <<[k |-> key, v |-> value]>>
    ELSE IF Head(d).k = key THEN <<[k |-> key, v |-> value]>> \o Tail(d)
    ELSE <<Head(d)>> \o DictPut(Tail(d), key, value)

RECURSIVE ResultDict(_, _)
ResultDict(search_results, result_dict) ==
    IF search_results = <<>> THEN result_dict
    ELSE ResultDict(Tail(search_results),
                    DictPut(result_dict,
                            <<"Query: ">> \o Head(search_results).query.v,
                            <<"Answer: ">> \o Head(search_results).content.v))

\* json.dumps of a dict of strings, kept as the dict it serializes
JsonV(d) == [t |-> "json", v |-> d]

\* build_search_context without its early return: no result gives "{}"
build_search_context_braces(search_results) ==
    JsonV(ResultDict(search_results, <<>>))

build_search_context(search_results) ==
    IF search_results = <<>> THEN StrV(<<>>)
    ELSE JsonV(ResultDict(search_results, <<>>))

\* the elements a Python for loop visits: the items of a list, the characters
\* (here: tokens) of a string
ItemsOf(val) ==
    IF val.t = "arr" THEN val.v
    ELSE IF val.t = "str" THEN [i \in 1..Len(val.v) |-> StrV(<<val.v[i]>>)]
    ELSE <<>>

(* ------------------------- ReleaseNoteGenerator ------------------------ *)

VARIABLES
    pc,                       \* where generate_release_notes stands
    payload,                  \* work_item_input.payload
    documentation,            \* work_item_input.documentation
    use_internal_doc,
    remove_internal_keywords,
    semantic_config,
    work_item_details,
    queries,
    qi,                       \* index of the query perform_rag_search is at
    search_results,
    search_context,
    user_impact,
    release_notes,
    standard_note,
    keywords,
    ki,                       \* index of the keyword _remove_internal_keywords is at
    replacements,
    result,                   \* what generate_release_notes returned
    calls,                    \* the completion requests issued, in order
    last,                     \* what the service answered to the latest request
    dropped,                  \* the queries perform_rag_search skipped
    failed,                   \* the kinds of call that raised
    response,                 \* ParsingService input
    shape,                    \* how the model answer in response was formed
    parsed,                   \* ParsingService output
    pfn,                      \* the ParsingService function applied
    raised,                   \* the entry points an exception has left
    function_name,            \* the functionName route parameter of the request
    params,                   \* what req.get_json() gives http_start
    http_response,            \* what http_start answered
    instance,                 \* the input of the orchestration http_start started
    apc,                      \* where the function app stands
    activity_result,          \* what the activity returned to the orchestrator
    orchestration_output,     \* what the orchestrator returned
    config,                   \* settings.config, the one AppConfig of the process
    runs                      \* the activity invocations that run side by side

vars == <<pc, payload, documentation, use_internal_doc, remove_internal_keywords,
          semantic_config, work_item_details, queries, qi, search_results,
          search_context, user_impact, release_notes, standard_note, keywords, ki,
          replacements, result, calls, last, dropped, failed, response, shape, parsed, pfn,
          raised, function_name, params, http_response, instance, apc, activity_result,
          orchestration_output, config, runs>>

concVars == <<config, runs>>

appVars == <<function_name, params, http_response, instance, apc, activity_result,
             orchestration_output, concVars>>

parseVars == <<response, shape, parsed, pfn>>

runVars == <<pc, payload, documentation, use_internal_doc, remove_internal_keywords,
             semantic_config, work_item_details, queries, qi, search_results,
             search_context, user_impact, release_notes, standard_note, keywords, ki,
             replacements, result, calls, last, dropped, failed>>

inputVars == <<payload, documentation, use_internal_doc, remove_internal_keywords>>

\* generate_release_notes' defaults and the fixed parameters of the stages
max_tokens == 800

search_max_tokens == 800

temperature == "0.2"

search_temperature == "0"

ServiceError == Raises("ServiceError")

PayloadV(p) == [t |-> "payload", v |-> p]

\* WorkItemDetails.to_dict, json.dumps of it and str of it keep the four fields
DetailsDict(details) == [t |-> "dict", v |-> details]

EmptyNotes == [k \in {} |-> StrV(<<>>)]

ErrorNote == StrV(<<"Error generating release note">>)

ImpactFallback == StrV(<<"Unable to determine user impact">>)


(* ------------------- what the text-generation model answers ------------ *)

\* a model answer holding the JSON object the prompt asks for
RenderField(name, dumped) == DumpString(<<name>>) \o <<":">> \o dumped

RenderDetails(sd, ci, at, kw) ==
    <<LBRACE>> \o RenderField("ShortDescription", DumpString(sd)) \o <<",">>
               \o RenderField("CustomerImpact", DumpString(ci)) \o <<",">>
               \o RenderField("ActivityType", DumpString(at)) \o <<",">>
               \o RenderField("Keywords", DumpList(kw)) \o <<RBRACE>>

RenderQueries(l) == <<LBRACE>> \o RenderField("queries", DumpList(l)) \o <<RBRACE>>

RenderKeywords(l) == <<LBRACE>> \o RenderField("kwrds", DumpList(l)) \o <<RBRACE>>

\* all lists over a set of items up to a length
ListsUpTo(items, n) == UNION {[1..k -> items] : k \in 0..n}

AnswersOf(texts) == {Returns(StrV(x)) : x \in texts} \cup {ServiceError}

AnalyzerOutcomes ==
    AnswersOf({<<"Here is the result:">>
                   \o RenderDetails(<<"Fixed SSO timeout">>, <<"Faster logins">>,
                                    <<"bug fix">>, <<<<"SSO">>>>),
               <<"This is not JSON">>})

PlannerOutcomes ==
    AnswersOf({RenderQueries(l) :
                   l \in ListsUpTo({<<"Define SSO">>, <<"Define PVA">>}, MaxQueries)}
              \cup {<<"Not a valid JSON response">>})

RetrievalOutcomes ==
    AnswersOf({<<"Single sign-on">>,
               NoRelevantMarker \o <<".">>,
               <<"The ">> \o RequestedMarker \o <<" available">>})

ImpactOutcomes == AnswersOf({<<"Logins no longer time out">>})

\* the token standing for one backquote character
Backquote == "<backquote>"

\* a code fence, three backquotes
Fence == <<Backquote, Backquote, Backquote>>

NoteOutcomes ==
    AnswersOf({<<"Sign-in is faster">>,
               Fence \o <<"markdown", "Sign-in is faster">> \o Fence})

RagNoteOutcomes == AnswersOf({<<"Sign-in is faster with SSO">>})

\* the keywords the extractor names, in the order it names them
KeywordSeq == [i \in 1..MaxKeywords |-> IF i % 2 = 1 THEN <<"PVA">> ELSE <<"SSO">>]

KeywordOutcomes ==
    AnswersOf({RenderKeywords(SubSeq(KeywordSeq, 1, k)) : k \in 0..MaxKeywords}
              \cup {<<"no keywords">>})

ProductOutcomes ==
    AnswersOf({<<"SSO is single sign-on">>,
               <<"The ">> \o RequestedMarker \o <<" available">>})

InternalOutcomes ==
    AnswersOf({<<"Personal Virtual Assistant, a chat agent.">>,
               <<"The ">> \o RequestedMarker \o <<" in the internal documentation">>})

RewriteOutcomes == AnswersOf({<<"Sign-in with one account is faster">>})

\* a work_item_input that is not a WorkItemInput: it has no payload attribute
NoPayloadAttribute == [t |-> "missing", v |-> <<>>]

Payloads == {NoneV, PayloadV(<<>>), PayloadV(<<"Id", "123">>), NoPayloadAttribute}

Documentations == {NoneV, StrV(<<"vector-1725386610272", "-semantic-configuration">>)}

(* ------------------------------ the run -------------------------------- *)

\* one generate_completion call: what it was given and the request it built
Call(kind, prompt, additional_info, parameters, sc) ==
    [kind |-> kind,
     additional_info |-> additional_info,
     request |-> CompletionArgs(prompt, additional_info, parameters, sc)]

\* the completion call is made and the service answers with outcome
Issue(call, outcome) ==
    /\ calls' = Append(calls, call)
    /\ last' = outcome
    /\ failed' = IF outcome.kind = "raise" THEN failed \cup {call.kind} ELSE failed

ReleaseNoteResult(details, qs, context, impact, notes) ==
    [t |-> "result", work_item_details |-> details, queries |-> qs,
     search_context |-> context, user_impact |-> impact, release_notes |-> notes]

NoResponse == [status |-> 0, body |-> <<>>]

\* the function app is not part of the run
AppIdle ==
    /\ function_name = NoneV
    /\ params = Returns(NoneV)
    /\ http_response = NoResponse
    /\ instance = NoneV
    /\ apc = "none"
    /\ activity_result = NoneV
    /\ orchestration_output = NoneV

\* AppConfig.__init__: the attributes the pipeline reads
AppConfig == [default_semantic_config |-> default_semantic_config]

\* no two activity invocations run side by side
ConcIdle ==
    /\ config = AppConfig
    /\ runs = <<>>

\* no answer is being parsed
ParseIdle ==
    /\ response = <<>>
    /\ shape = [form |-> "none"]
    /\ parsed = Returns(NoneV)
    /\ pfn = "none"

\* the locals of generate_release_notes before it runs
RunLocalsInit ==
    /\ semantic_config = NoneV
    /\ work_item_details = NoneV
    /\ queries = ArrV(<<>>)
    /\ qi = 1
    /\ search_results = <<>>
    /\ search_context = StrV(<<>>)
    /\ user_impact = NoneV
    /\ release_notes = EmptyNotes
    /\ standard_note = NoneV
    /\ keywords = ArrV(<<>>)
    /\ ki = 1
    /\ replacements = <<>>
    /\ result = NoneV
    /\ calls = <<>>
    /\ last = Returns(NoneV)
    /\ dropped = 0
    /\ failed = {}
    /\ raised = {}

Init ==
    /\ pc = "start"
    /\ payload \in Payloads
    /\ documentation \in Documentations
    /\ use_internal_doc \in BOOLEAN
    /\ remove_internal_keywords \in BOOLEAN
    /\ RunLocalsInit
    /\ ParseIdle
    /\ AppIdle
    /\ ConcIdle

\* the entry points an exception has left once entry has ended with outcome
Leaves(entry, outcome) ==
    IF outcome.kind = "raise" THEN raised \cup {entry} ELSE raised

\* the except branch of generate_release_notes: the error is logged, None returned
GenerateExcept(exc) == Returns(NoneV)

\* generate_release_notes up to the analysis call: input validation and the
\* semantic configuration
Validate ==
    /\ pc = "start"
    /\ IF payload = NoPayloadAttribute
       THEN /\ pc' = "done"
            /\ raised' = Leaves("generate_release_notes", GenerateExcept("AttributeError"))
            /\ UNCHANGED semantic_config
       ELSE IF ~Truthy(payload)
       THEN /\ pc' = "done"
            /\ UNCHANGED <<semantic_config, raised>>
       ELSE /\ pc' = "analyze"
            /\ semantic_config' = get_semantic_config(documentation)
            /\ UNCHANGED raised
    /\ UNCHANGED <<inputVars, dropped, work_item_details, queries, qi, search_results,
                   search_context, user_impact, release_notes, standard_note,
                   keywords, ki, replacements, result, calls, last, failed, parseVars,
                   appVars>>

\* _analyze_work_item falling back to empty details when nothing was parsed
AnalysisResult_defaults(outcome) ==
    IF outcome.kind = "raise" THEN NoneV
    ELSE LET r == parse_work_item_details(outcome.val.v)
         IN IF r.kind = "raise" THEN NoneV
            ELSE IF r.val.t = "none"
            THEN WorkItemDetailsV(StrV(<<>>), StrV(<<>>), StrV(<<>>), ArrV(<<>>))
            ELSE r.val

\* _analyze_work_item: None when the call raises, when the parser raises and
\* when the parser returns None
AnalysisResult(outcome) ==
    IF outcome.kind = "raise" THEN NoneV
    ELSE LET r == parse_work_item_details(outcome.val.v)
         IN IF r.kind = "raise" THEN NoneV ELSE r.val

AnalyzeWorkItem ==
    /\ pc = "analyze"
    /\ \E outcome \in AnalyzerOutcomes :
         /\ Issue(
                Call("analysis", Prompt("INPUT_GENERATOR", <<payload>>), NoneV,
                     LLMParameters(max_tokens, temperature, FALSE, FALSE), NoneV), outcome)
         /\ work_item_details' = AnalysisResult(outcome)
         /\ pc' = IF AnalysisResult(outcome).t = "none" THEN "done" ELSE "queries"
    /\ UNCHANGED <<inputVars, dropped, semantic_config, queries, qi, search_results,
                   search_context, user_impact, release_notes, standard_note,
                   keywords, ki, replacements, result, parseVars, appVars, raised>>

\* _generate_queries: [] when the call raises and when the parser raises
QueriesResult(outcome) ==
    IF outcome.kind = "raise" THEN ArrV(<<>>)
    ELSE LET r == parse_queries(outcome.val.v)
         IN IF r.kind = "raise" THEN ArrV(<<>>) ELSE r.val

GenerateQueries ==
    /\ pc = "queries"
    /\ \E outcome \in PlannerOutcomes :
         /\ Issue(
                Call("queries",
                     Prompt("QUERY_GENERATOR", <<DetailsDict(work_item_details)>>),
                     NoneV, LLMParameters(max_tokens, temperature, FALSE, FALSE),
                     NoneV), outcome)
         /\ queries' = QueriesResult(outcome)
    /\ qi' = 1
    /\ search_results' = <<>>
    /\ pc' = "search"
    /\ UNCHANGED <<inputVars, dropped, semantic_config, work_item_details, search_context,
                   user_impact, release_notes, standard_note, keywords, ki,
                   replacements, result, parseVars, appVars, raised>>

\* SearchOutcome holding a failed query back for a retry that nothing starts
SearchOutcome_await_retry(results, query, outcome) ==
    IF outcome.kind = "raise"
    THEN [search_results |-> results, dropped |-> 0, pc |-> "retry"]
    ELSE IF _is_no_information_response(outcome.val)
    THEN [search_results |-> results, dropped |-> 1, pc |-> "search"]
    ELSE [search_results |-> Append(results, SearchResult(query, outcome.val)),
          dropped |-> 0, pc |-> "search"]

\* SearchOutcome leaving the loop at the first answer without information
SearchOutcome_break(results, query, outcome) ==
    IF outcome.kind = "raise"
    THEN [search_results |-> results, dropped |-> 1, pc |-> "search"]
    ELSE IF _is_no_information_response(outcome.val)
    THEN [search_results |-> results, dropped |-> 1, pc |-> "impact"]
    ELSE [search_results |-> Append(results, SearchResult(query, outcome.val)),
          dropped |-> 0, pc |-> "search"]

\* SearchOutcome without the try/except around the call: the exception leaves
\* perform_rag_search and ends generate_release_notes
SearchOutcome_uncaught(results, query, outcome) ==
    IF outcome.kind = "raise"
    THEN [search_results |-> <<>>, dropped |-> 0, pc |-> "done"]
    ELSE IF _is_no_information_response(outcome.val)
    THEN [search_results |-> results, dropped |-> 1, pc |-> "search"]
    ELSE [search_results |-> Append(results, SearchResult(query, outcome.val)),
          dropped |-> 0, pc |-> "search"]

\* the body of perform_rag_search's loop once the call for query is over:
\* an exception and a no-information answer skip the query, any other answer
\* is appended; the loop goes on in every case
SearchOutcome(results, query, outcome) ==
    IF outcome.kind = "raise"
    THEN [search_results |-> results, dropped |-> 1, pc |-> "search"]
    ELSE IF _is_no_information_response(outcome.val)
    THEN [search_results |-> results, dropped |-> 1, pc |-> "search"]
    ELSE [search_results |-> Append(results, SearchResult(query, outcome.val)),
          dropped |-> 0, pc |-> "search"]

\* one turn of perform_rag_search's loop
SearchQuery ==
    /\ pc = "search"
    /\ qi <= Len(ItemsOf(queries))
    /\ LET query == ItemsOf(queries)[qi]
       IN IF FailsBeforeSend(query)
          THEN /\ UNCHANGED <<calls, last, failed, search_results, pc>>
               /\ dropped' = dropped + 1
          ELSE \E outcome \in RetrievalOutcomes :
                 /\ Issue(
                        Call("retrieval", Prompt("CONTEXT_RETRIEVER", <<>>), query,
                             LLMParameters(search_max_tokens, search_temperature,
                                           TRUE, use_internal_doc),
                             semantic_config), outcome)
                 /\ search_results' =
                        SearchOutcome(search_results, query, outcome).search_results
                 /\ dropped' = dropped + SearchOutcome(search_results, query, outcome).dropped
                 /\ pc' = SearchOutcome(search_results, query, outcome).pc
    /\ qi' = qi + 1
    /\ UNCHANGED <<inputVars, semantic_config, work_item_details, queries,
                   search_context, user_impact, release_notes, standard_note,
                   keywords, ki, replacements, result, parseVars, appVars, raised>>

\* the end of perform_rag_search and build_search_context
BuildContext ==
    /\ pc = "search"
    /\ qi > Len(ItemsOf(queries))
    /\ search_context' = build_search_context(search_results)
    /\ pc' = "impact"
    /\ UNCHANGED <<inputVars, dropped, semantic_config, work_item_details, queries, qi,
                   search_results, user_impact, release_notes, standard_note,
                   keywords, ki, replacements, result, calls, last, failed, parseVars, appVars, raised>>

\* _generate_user_impact letting None stand for a failed call
ImpactResult_none(outcome) ==
    IF outcome.kind = "raise" THEN NoneV ELSE outcome.val

\* what _generate_user_impact returns: the answer, or the fallback when the
\* call raised
ImpactResult(outcome) ==
    IF outcome.kind = "raise" THEN ImpactFallback ELSE outcome.val

\* _generate_user_impact
GenerateUserImpact ==
    /\ pc = "impact"
    /\ \E outcome \in ImpactOutcomes :
         /\ Issue(
                Call("impact",
                     Prompt("CONTEXT_SUMMARIZER",
                            <<search_context, work_item_details.short_description>>),
                     NoneV, LLMParameters(max_tokens, temperature, FALSE, FALSE),
                     NoneV), outcome)
         /\ user_impact' = ImpactResult(outcome)
    /\ pc' = IF use_internal_doc THEN "rag_note" ELSE "standard_note"
    /\ UNCHANGED <<inputVars, dropped, semantic_config, work_item_details, queries, qi,
                   search_results, search_context, release_notes, standard_note,
                   keywords, ki, replacements, result, parseVars, appVars, raised>>


\* what generate_release_notes returns once _generate_final_release_notes is over
ReturnNotes(notes) ==
    /\ release_notes' = notes
    /\ result' = ReleaseNoteResult(work_item_details, queries, search_context,
                                   user_impact, notes)
    /\ pc' = "done"

\* the except branch of _generate_final_release_notes
ErrorNotes == "ReleaseNote" :> ErrorNote

\* the end of the try block building a fresh map for the standard note
FinalNotes_fresh(notes, note, without_keywords) ==
    ("ReleaseNote" :> note) @@ ("ReleaseNote_withoutKeywords" :> without_keywords)

\* the two assignments that end _generate_final_release_notes' try block
FinalNotes(notes, note, without_keywords) ==
    ("ReleaseNote" :> note) @@ ("ReleaseNote_withoutKeywords" :> without_keywords) @@ notes

\* _generate_final_release_notes, the retrieval-augmented note
GenerateRagNote ==
    /\ pc = "rag_note"
    /\ \E outcome \in RagNoteOutcomes :
         /\ Issue(
                Call("rag_note", Prompt("RELEASE_NOTE_GENERATOR_V2", <<>>), user_impact,
                     LLMParameters(max_tokens, temperature, TRUE, FALSE),
                     semantic_config), outcome)
         /\ IF outcome.kind = "raise"
            THEN ReturnNotes(ErrorNotes)
            ELSE /\ release_notes' = ("RAG_ReleaseNote" :> outcome.val) @@ release_notes
                 /\ pc' = "standard_note"
                 /\ UNCHANGED result
    /\ UNCHANGED <<inputVars, dropped, semantic_config, work_item_details, queries, qi,
                   search_results, search_context, user_impact, standard_note,
                   keywords, ki, replacements, parseVars, appVars, raised>>

\* the standard note asked for with the impact summary as additional details
StandardNoteCall_with_impact(details, context, impact) ==
    Call("standard_note",
         Prompt("RELEASE_NOTE_GENERATOR", <<DetailsDict(details), context>>),
         impact, LLMParameters(max_tokens, temperature, FALSE, FALSE), NoneV)

\* the standard note's call in _generate_final_release_notes, which holds
\* user_impact and passes the details and the context only
StandardNoteCall(details, context, impact) ==
    Call("standard_note",
         Prompt("RELEASE_NOTE_GENERATOR", <<DetailsDict(details), context>>),
         NoneV, LLMParameters(max_tokens, temperature, FALSE, FALSE), NoneV)

\* _generate_final_release_notes, the standard note
GenerateStandardNote ==
    /\ pc = "standard_note"
    /\ \E outcome \in NoteOutcomes :
         /\ Issue(StandardNoteCall(work_item_details, search_context, user_impact),
                  outcome)
         /\ IF outcome.kind = "raise"
            THEN /\ ReturnNotes(ErrorNotes)
                 /\ UNCHANGED standard_note
            ELSE /\ standard_note' = outcome.val
                 /\ IF remove_internal_keywords
                    THEN /\ pc' = "keyword_extract"
                         /\ UNCHANGED <<release_notes, result>>
                    ELSE ReturnNotes(FinalNotes(release_notes, outcome.val, outcome.val))
    /\ UNCHANGED <<inputVars, dropped, semantic_config, work_item_details, queries, qi,
                   search_results, search_context, user_impact, keywords, ki,
                   replacements, parseVars, appVars, raised>>

\* _remove_internal_keywords returns without_keywords
ReturnWithoutKeywords(without_keywords) ==
    ReturnNotes(FinalNotes(release_notes, standard_note, without_keywords))

\* _remove_internal_keywords without its try/except: the exception reaches the
\* except branch of _generate_final_release_notes
RemovalFailed_uncaught == ReturnNotes(ErrorNotes)

\* the except branch of _remove_internal_keywords: the note it was given
RemovalFailed == ReturnWithoutKeywords(standard_note)

\* what parse_keywords gives _remove_internal_keywords; raised = TRUE when the
\* call or the parser raised
KeywordsResult(outcome) ==
    IF outcome.kind = "raise" THEN [raised |-> TRUE, val |-> ArrV(<<>>)]
    ELSE LET r == parse_keywords(outcome.val.v)
         IN IF r.kind = "raise" THEN [raised |-> TRUE, val |-> ArrV(<<>>)]
            ELSE [raised |-> FALSE, val |-> r.val]

\* _remove_internal_keywords, keyword extraction
ExtractKeywords ==
    /\ pc = "keyword_extract"
    /\ \E outcome \in KeywordOutcomes :
         /\ Issue(
                Call("keyword_extract", Prompt("KEYWORD_EXTRACTOR", <<standard_note>>),
                     NoneV, LLMParameters(400, "0", FALSE, FALSE), NoneV), outcome)
         /\ keywords' = KeywordsResult(outcome).val
         /\ IF KeywordsResult(outcome).raised \/ ~Truthy(KeywordsResult(outcome).val)
            THEN ReturnWithoutKeywords(standard_note)
            ELSE /\ pc' = "product_lookup"
                 /\ UNCHANGED <<release_notes, result>>
    /\ ki' = 1
    /\ replacements' = <<>>
    /\ UNCHANGED <<inputVars, dropped, semantic_config, work_item_details, queries, qi,
                   search_results, search_context, user_impact, standard_note,
                   parseVars, appVars, raised>>

\* the for loop of _remove_internal_keywords moves to the next keyword, or to
\* the rewrite when there is none
NextKeywordPc(k) == IF k <= Len(ItemsOf(keywords)) THEN "product_lookup" ELSE "rewrite"

\* the product documentation test with "not in" written as "in"
FoundInProductDocs_inverted(prod_doc_response) ==
    Contains(prod_doc_response.v, RequestedMarker)

\* the product documentation knows the keyword: its answer lacks the marker
FoundInProductDocs(prod_doc_response) ==
    ~Contains(prod_doc_response.v, RequestedMarker)

\* _remove_internal_keywords, the product documentation lookup of one keyword
ProductLookup ==
    /\ pc = "product_lookup"
    /\ LET keyword == ItemsOf(keywords)[ki]
       IN IF FailsBeforeSend(keyword)
          THEN /\ RemovalFailed
               /\ UNCHANGED <<calls, last, failed, ki>>
          ELSE \E outcome \in ProductOutcomes :
                 /\ Issue(
                        Call("product_lookup", Prompt("PRODUCT_DOC_SEARCH", <<>>),
                             keyword, LLMParameters(400, "0", TRUE, FALSE),
                             semantic_config), outcome)
                 /\ IF outcome.kind = "raise"
                    THEN /\ RemovalFailed
                         /\ UNCHANGED ki
                    ELSE IF FoundInProductDocs(outcome.val)
                    THEN /\ ki' = ki + 1
                         /\ pc' = NextKeywordPc(ki + 1)
                         /\ UNCHANGED <<release_notes, result>>
                    ELSE /\ pc' = "internal_lookup"
                         /\ UNCHANGED <<ki, release_notes, result>>
    /\ UNCHANGED <<inputVars, dropped, semantic_config, work_item_details, queries, qi,
                   search_results, search_context, user_impact, standard_note,
                   keywords, replacements, parseVars, appVars, raised>>

\* the replacement recorded only for an answer without a no-information marker
RecordReplacement_checked(reps, keyword, internal_doc_response) ==
    IF _is_no_information_response(internal_doc_response) THEN reps
    ELSE DictPut(reps, keyword.v, internal_doc_response.v)

\* replacements[keyword] = internal_doc_response
RecordReplacement(reps, keyword, internal_doc_response) ==
    DictPut(reps, keyword.v, internal_doc_response.v)

\* _remove_internal_keywords, the internal documentation lookup of one keyword
InternalLookup ==
    /\ pc = "internal_lookup"
    /\ LET keyword == ItemsOf(keywords)[ki]
       IN \E outcome \in InternalOutcomes :
            /\ Issue(
                   Call("internal_lookup", Prompt("KEYWORD_DICTIONARY", <<>>),
                        keyword, LLMParameters(400, "0", TRUE, TRUE),
                        semantic_config), outcome)
            /\ IF outcome.kind = "raise"
               THEN /\ RemovalFailed
                    /\ UNCHANGED <<ki, replacements>>
               ELSE /\ replacements' = RecordReplacement(replacements, keyword, outcome.val)
                    /\ ki' = ki + 1
                    /\ pc' = NextKeywordPc(ki + 1)
                    /\ UNCHANGED <<release_notes, result>>
    /\ UNCHANGED <<inputVars, dropped, semantic_config, work_item_details, queries, qi,
                   search_results, search_context, user_impact, standard_note,
                   keywords, parseVars, appVars, raised>>

\* the rewrite asked for whatever the replacements hold
ShouldRewrite_always(reps) == TRUE

\* "if replacements": there is something to rewrite
ShouldRewrite(reps) == reps # <<>>

\* _remove_internal_keywords, the replacements are applied
ApplyReplacements ==
    /\ pc = "rewrite"
    /\ IF ~ShouldRewrite(replacements)
       THEN /\ ReturnWithoutKeywords(standard_note)
            /\ UNCHANGED <<calls, last, failed>>
       ELSE \E outcome \in RewriteOutcomes :
              /\ Issue(
                     Call("rewrite",
                          Prompt("KEYWORD_REPLACER", <<JsonV(replacements), standard_note>>),
                          NoneV, LLMParameters(800, "0", FALSE, FALSE), NoneV), outcome)
              /\ IF outcome.kind = "raise" THEN RemovalFailed
                 ELSE ReturnWithoutKeywords(outcome.val)
    /\ UNCHANGED <<inputVars, dropped, semantic_config, work_item_details, queries, qi,
                   search_results, search_context, user_impact, standard_note,
                   keywords, ki, replacements, parseVars, appVars, raised>>

Next ==
    \/ Validate
    \/ AnalyzeWorkItem
    \/ GenerateQueries
    \/ SearchQuery
    \/ BuildContext
    \/ GenerateUserImpact
    \/ GenerateRagNote
    \/ GenerateStandardNote
    \/ ExtractKeywords
    \/ ProductLookup
    \/ InternalLookup
    \/ ApplyReplacements

Spec == Init /\ [][Next]_vars


(* --------------- the parsers and their callers, on their own ----------- *)

\* a list of strings as json.loads gives it
StrList(l) == ArrV([i \in 1..Len(l) |-> StrV(l[i])])

ParseStrings == TextsUpTo(WordTokens, MaxStrLen)

ParseItems == TextsUpTo({"w", RBRACE}, MaxStrLen)

Prose == TextsUpTo(WordTokens, MaxProseLen)

Trailers == {<<>>, <<"w">>}

\* the number of queries QUERY_GENERATOR asks the model for
QueryBatchSize == 5

\* a list of one query more than the planner was asked for
LongBatch == [i \in 1..(QueryBatchSize + 1) |-> <<"w">>]

\* answers holding the object the query planner is asked for
PlannerAnswers ==
    {[text |-> pre \o RenderQueries(l) \o post,
      shape |-> [form |-> "queries", list |-> l, pre |-> pre]] :
        l \in ListsUpTo(ParseItems, MaxListLen), pre \in Prose, post \in Trailers}
    \cup {[text |-> RenderQueries(LongBatch),
           shape |-> [form |-> "queries", list |-> LongBatch, pre |-> <<>>]]}

\* answers holding the flat object the analyzer is asked for
AnalyzerAnswers ==
    {[text |-> pre \o RenderDetails(d[1], d[2], <<"bug fix">>, d[3]) \o post,
      shape |-> [form |-> "details", sd |-> d[1], ci |-> d[2], at |-> <<"bug fix">>,
                 kw |-> d[3], pre |-> pre]] :
        d \in ParseStrings \X ParseStrings \X ListsUpTo({<<"SSO">>}, MaxListLen),
        pre \in Prose, post \in Trailers}

\* answers that hold something else
OtherAnswers ==
    {[text |-> x, shape |-> [form |-> "other"]] :
        x \in TextsUpTo(WordTokens \cup {QUOTE}, MaxProseLen + 1)
              \cup {<<LBRACE>> \o RenderField("queries", DumpString(<<"w">>)) \o <<RBRACE>>,
                    <<LBRACE>> \o RenderField("queries", <<"null">>) \o <<RBRACE>>,
                    <<LBRACE>> \o RenderField("other", DumpList(<<<<"w">>>>)) \o <<RBRACE>>,
                    <<LBRACE>> \o RenderField("queries", DumpList(<<<<"w">>>>)),
                    <<LBRACE>> \o RenderField("ShortDescription",
                                     <<LBRACE>> \o RenderField("a", DumpString(<<"w">>))
                                                \o <<RBRACE>>) \o <<RBRACE>>,
                    <<LBRACE>> \o RenderField("ShortDescription", <<"null">>) \o <<RBRACE>>,
                    <<LBRACE>> \o RenderField("CustomerImpact", <<"null">>) \o <<RBRACE>>,
                    <<LBRACE>> \o RenderField("Keywords", <<"null">>) \o <<RBRACE>>}}

\* a nested object, as a model may put it before the fields it is asked for
NestedObject == <<LBRACE>> \o RenderField("a", DumpString(<<"w">>)) \o <<RBRACE>>

\* the fields a nested object may stand before
NestedTails ==
    {RenderField("queries", DumpList(<<<<"w">>>>)),
     RenderField("kwrds", DumpList(<<<<"w">>>>)),
     RenderField("ShortDescription", DumpString(<<"w">>)) \o <<",">>
         \o RenderField("Keywords", DumpList(<<<<"w">>>>))}

\* answers holding one well-formed JSON object with a nested object before
\* its own closing brace, with or without a word before it
NestedAnswers ==
    {[text |-> pre \o <<LBRACE>> \o RenderField("meta", NestedObject) \o <<",">>
                   \o tail \o <<RBRACE>>,
      shape |-> [form |-> "nested", pre |-> pre]] :
        tail \in NestedTails, pre \in {<<>>, <<"w">>}}

ParseInit ==
    /\ pc = "idle"
    /\ payload = NoneV
    /\ documentation = NoneV
    /\ use_internal_doc = FALSE
    /\ remove_internal_keywords = FALSE
    /\ RunLocalsInit
    /\ \E a \in PlannerAnswers \cup AnalyzerAnswers \cup OtherAnswers \cup NestedAnswers :
         /\ response = a.text
         /\ shape = a.shape
    /\ parsed = Returns(NoneV)
    /\ pfn = "none"
    /\ AppIdle
    /\ ConcIdle

Apply(fn, out) ==
    /\ pfn = "none"
    /\ pfn' = fn
    /\ parsed' = out
    /\ UNCHANGED <<runVars, response, shape, appVars, raised>>

ApplyParseWorkItemDetails ==
    Apply("parse_work_item_details", parse_work_item_details(response))

ApplyParseQueries == Apply("parse_queries", parse_queries(response))

ApplyParseKeywords == Apply("parse_keywords", parse_keywords(response))

\* _analyze_work_item when the call answers response
ApplyAnalyze == Apply("analyze", Returns(AnalysisResult(Returns(StrV(response)))))

\* _generate_queries when the call answers response
ApplyPlan == Apply("plan", Returns(QueriesResult(Returns(StrV(response)))))

ParseNext ==
    \/ ApplyParseWorkItemDetails
    \/ ApplyParseQueries
    \/ ApplyParseKeywords
    \/ ApplyAnalyze
    \/ ApplyPlan

ParseSpec == ParseInit /\ [][ParseNext]_vars


(* ---------------------------- function app ---------------------------- *)

\* `x is None`, for the None of Python and the null of a parsed JSON text
IsNone(val) == val = NoneV \/ val = LitV("null")

\* isinstance(x, bool): of the JSON values only true and false
IsBool(val) == val = LitV("true") \/ val = LitV("false")

\* `key in params` on a parsed object
HasKey(obj, key) == \E i \in 1..Len(obj.v) : obj.v[i].k = <<key>>

\* ParsingService.validate_json_input: json.loads does not raise
validate_json_input(input_json) == json_loads(input_json).ok

HttpResponse(status, body) == [status |-> status, body |-> body]

WorkItemInputV(single, payload_data, documentation_config) ==
    [t |-> "input", single |-> single, payload |-> payload_data,
     documentation |-> documentation_config]

\* WorkItemInput.to_dict leaving the documentation out
to_dict_without_documentation(x) ==
    ObjV(<<[k |-> <<"single">>, v |-> x.single], [k |-> <<"payload">>, v |-> x.payload]>>)

\* WorkItemInput.to_dict
to_dict(x) ==
    ObjV(<<[k |-> <<"single">>, v |-> x.single], [k |-> <<"payload">>, v |-> x.payload],
           [k |-> <<"documentation">>, v |-> x.documentation]>>)

\* WorkItemInput.from_dict
from_dict(data) ==
    WorkItemInputV(DictGet(data, <<"single">>, LitV("false")),
                   DictGet(data, <<"payload">>, ObjV(<<>>)),
                   DictGet(data, <<"documentation">>, NoneV))

\* WorkItemInput.to_json
to_json(x) == DumpValue(to_dict(x))

\* WorkItemInput.from_json: json.loads raises for a text that is not JSON
from_json(json_str) ==
    LET data == json_loads(json_str)
    IN IF ~data.ok THEN Raises("JSONDecodeError") ELSE Returns(from_dict(data.val))

\* the (True, work_item_input) and (False, response) results of the validator
Accept(input) == [ok |-> TRUE, response |-> NoResponse, input |-> input]

Reject(status, body) ==
    [ok |-> FALSE, response |-> HttpResponse(status, body), input |-> NoneV]

\* the validator accepting whatever JSON type 'single' has
validate_single_untyped(is_single) == TRUE

\* the isinstance(is_single, bool) test of the validator
validate_single(is_single) == IsBool(is_single)

\* InputValidator.validate_and_parse_request, given what req.get_json() does
validate_and_parse_request(got) ==
    IF got.kind = "raise"
    THEN Reject(500, <<"Internal error processing request">>)
    ELSE IF ~Truthy(got.val)
    THEN Reject(400, <<"Request body must contain valid JSON">>)
    ELSE IF got.val.t # "obj"
    THEN Reject(500, <<"Internal error processing request">>)
    ELSE IF ~HasKey(got.val, "single")
    THEN Reject(400, <<"Missing required parameter: 'single'">>)
    ELSE IF ~HasKey(got.val, "payload")
    THEN Reject(400, <<"Missing required parameter: 'payload'">>)
    ELSE LET is_single == DictGet(got.val, <<"single">>, NoneV)
             payload_json == DictGet(got.val, <<"payload">>, NoneV)
             documentation_config == DictGet(got.val, <<"documentation">>, NoneV)
         IN IF ~validate_single(is_single)
            THEN Reject(400, <<"Parameter 'single' must be boolean">>)
            ELSE IF IsNone(payload_json)
            THEN Reject(400, <<"Parameter 'payload' cannot be null">>)
            ELSE IF payload_json.t = "str"
            THEN IF ~validate_json_input(payload_json.v)
                 THEN Reject(400, <<"Invalid 'payload' parameter. Expecting valid JSON.">>)
                 ELSE Accept(WorkItemInputV(is_single, json_loads(payload_json.v).val,
                                            documentation_config))
            ELSE Accept(WorkItemInputV(is_single, payload_json, documentation_config))

\* validate_function_name accepting every name that is not empty
validate_function_name_nonempty(name) == Truthy(name)

\* InputValidator.validate_function_name
validate_function_name(name) ==
    IF ~Truthy(name) THEN FALSE
    ELSE name.v \in {<<"orchestrator">>, <<"release_note_orchestrator">>}

\* the orchestrations the app registers
Orchestrators == {<<"release_note_orchestrator">>}

\* client.start_new: the instance is started, or the call raises
StartOutcomes == {Returns(StrV(<<"instance-id">>)), Raises("start_new failed")}

\* http_start
HttpStart ==
    /\ apc = "http"
    /\ IF ~validate_function_name(function_name)
       THEN /\ http_response' = HttpResponse(400, <<"Invalid function name">>)
            /\ apc' = "responded"
            /\ UNCHANGED instance
       ELSE LET v == validate_and_parse_request(params)
            IN IF ~v.ok
               THEN /\ http_response' = v.response
                    /\ apc' = "responded"
                    /\ UNCHANGED instance
               ELSE \E started \in StartOutcomes :
                      IF started.kind = "raise"
                      THEN /\ http_response' = HttpResponse(500, <<"Internal server error">>)
                           /\ apc' = "responded"
                           /\ UNCHANGED instance
                      ELSE /\ http_response' = HttpResponse(202, started.val.v)
                           /\ instance' = v.input
                           /\ apc' = IF function_name.v \in Orchestrators
                                     THEN "orchestrator" ELSE "responded"
    /\ UNCHANGED <<runVars, parseVars, raised, function_name, params, activity_result,
                   orchestration_output, concVars>>

\* release_note_orchestrator up to its call of the activity
OrchestratorStart ==
    /\ apc = "orchestrator"
    /\ apc' = "activity"
    /\ UNCHANGED <<runVars, parseVars, raised, function_name, params, http_response,
                   instance, activity_result, orchestration_output, concVars>>

\* release_note_orchestrator returns what the activity returned
OrchestratorReturn ==
    /\ apc = "returned"
    /\ orchestration_output' = activity_result
    /\ apc' = "completed"
    /\ UNCHANGED <<runVars, parseVars, raised, function_name, params, http_response,
                   instance, activity_result, concVars>>

\* ReleaseNoteGenerator(): the services are built, or building them raises
ConstructorOutcomes == {Returns(NoneV), Raises("ConfigurationError")}

\* the activity with its except branch raising again
ActivityExcept_reraise(exc) == Raises(exc)

\* the except branch of the activity: the error becomes the returned string
ActivityExcept(exc) == Returns(StrV(<<"Error generating release notes: ", exc>>))

\* the activity ends with outcome
ActivityEnds(outcome) ==
    /\ activity_result' = IF outcome.kind = "raise" THEN NoneV ELSE outcome.val
    /\ apc' = "returned"

\* the activity choosing the bulk formatter for single mode
SelectPath_inverted(single) == IF Truthy(single) THEN "bulk" ELSE "start"

\* the activity's choice between the per-item pipeline and the bulk formatter
SelectPath(single) == IF Truthy(single) THEN "start" ELSE "bulk"

\* the activity turning internal-documentation mode on for a request that
\* names its documentation
ActivityFlags_from_documentation(work_item_input) ==
    [use_internal_doc |-> Truthy(work_item_input.documentation),
     remove_internal_keywords |-> FALSE]

\* the keyword arguments the activity passes to generate_release_notes,
\* whatever the request holds
ActivityFlags(work_item_input) ==
    [use_internal_doc |-> FALSE, remove_internal_keywords |-> FALSE]

\* the activity generate_release_notes up to its call of the generator
ActivityStart ==
    /\ apc = "activity"
    /\ IF IsNone(instance.payload)
       THEN /\ ActivityEnds(
                   Returns(StrV(<<"Error: Invalid input data - payload is missing">>)))
            /\ UNCHANGED <<pc, inputVars, raised>>
       ELSE \E made \in ConstructorOutcomes :
              IF made.kind = "raise"
              THEN /\ ActivityEnds(ActivityExcept(made.val.v[1]))
                   /\ raised' = Leaves("activity", ActivityExcept(made.val.v[1]))
                   /\ UNCHANGED <<pc, inputVars>>
              ELSE /\ payload' = instance.payload
                   /\ documentation' = instance.documentation
                   /\ use_internal_doc' = ActivityFlags(instance).use_internal_doc
                   /\ remove_internal_keywords' =
                          ActivityFlags(instance).remove_internal_keywords
                   /\ pc' = SelectPath(instance.single)
                   /\ apc' = "running"
                   /\ UNCHANGED <<activity_result, raised>>
    /\ UNCHANGED <<semantic_config, work_item_details, queries, qi, search_results,
                   search_context, user_impact, release_notes, standard_note, keywords,
                   ki, replacements, result, calls, last, dropped, failed, parseVars,
                   function_name, params, http_response, instance, orchestration_output, concVars>>

\* the activity returning the note's default for a run without a result
SingleResult_no_note(res) ==
    IF res # NoneV /\ "ReleaseNote" \in DOMAIN res.release_notes
    THEN res.release_notes["ReleaseNote"]
    ELSE StrV(<<"No release note generated">>)

\* what the activity returns for the result of generate_release_notes
SingleResult(res) ==
    IF res # NoneV /\ DOMAIN res.release_notes # {}
    THEN IF "ReleaseNote" \in DOMAIN res.release_notes
         THEN res.release_notes["ReleaseNote"]
         ELSE StrV(<<"No release note generated">>)
    ELSE StrV(<<"Failed to generate release note - no result returned">>)

\* the activity generate_release_notes once the generator is back, single mode
ActivityReturn ==
    /\ apc = "running"
    /\ pc = "done"
    /\ Truthy(instance.single)
    /\ LET outcome == IF "generate_release_notes" \in raised
                      THEN ActivityExcept("AttributeError")
                      ELSE Returns(SingleResult(result))
       IN /\ ActivityEnds(outcome)
          /\ raised' = Leaves("activity", outcome)
    /\ UNCHANGED <<runVars, parseVars, function_name, params, http_response, instance,
                   orchestration_output, concVars>>

\* str.replace(old, ""): every occurrence of the tokens of old is removed
RECURSIVE RemoveSeq(_, _)
RemoveSeq(s, old) ==
    IF Len(s) < Len(old) THEN s
    ELSE IF SubSeq(s, 1, Len(old)) = old
    THEN RemoveSeq(SubSeq(s, Len(old) + 1, Len(s)), old)
    ELSE <<Head(s)>> \o RemoveSeq(Tail(s), old)

Whitespace == {"\n", " "}

\* str.strip()
RECURSIVE Strip(_)
Strip(s) ==
    IF s = <<>> THEN s
    ELSE IF Head(s) \in Whitespace THEN Strip(Tail(s))
    ELSE IF s[Len(s)] \in Whitespace THEN Strip(SubSeq(s, 1, Len(s) - 1))
    ELSE s

\* the clean-up with the trimming done before the fences are removed
StripFences_strip_first(final_output) ==
    RemoveSeq(RemoveSeq(Strip(final_output), Fence \o <<"markdown">>), Fence)

\* the clean-up of generate_bulk_release_notes
StripFences(final_output) ==
    Strip(RemoveSeq(RemoveSeq(final_output, Fence \o <<"markdown">>), Fence))

\* the except branch of generate_bulk_release_notes
BulkExcept(exc) == Returns(StrV(<<"Error generating release notes">>))

\* what generate_bulk_release_notes returns for the outcome of its call
BulkResult(outcome) ==
    IF outcome.kind = "raise" THEN BulkExcept(outcome.val.v[1])
    ELSE Returns(StrV(StripFences(outcome.val.v)))

BulkOutcomes ==
    AnswersOf({<<"## Release notes", "\n", "- Sign-in is faster">>,
               Fence \o <<"markdown", "\n", "## Release notes", "\n">> \o Fence \o <<"\n">>})

\* generate_bulk_release_notes and the activity returning what it gave
GenerateBulk ==
    /\ apc = "running"
    /\ pc = "bulk"
    /\ \E outcome \in BulkOutcomes :
         LET bulk == BulkResult(outcome)
             ends == IF bulk.kind = "raise" THEN ActivityExcept(bulk.val.v[1]) ELSE bulk
         IN /\ Issue(
                   Call("bulk", Prompt("RELEASE_NOTES_FORMATTER", <<payload>>), NoneV,
                        LLMParameters(2000, "0.1", FALSE, FALSE), NoneV), outcome)
            /\ ActivityEnds(ends)
            /\ raised' = Leaves("activity", ends)
                           \cup (IF bulk.kind = "raise"
                                 THEN {"generate_bulk_release_notes"} ELSE {})
    /\ pc' = "done"
    /\ UNCHANGED <<inputVars, semantic_config, work_item_details, queries, qi,
                   search_results, search_context, user_impact, release_notes,
                   standard_note, keywords, ki, replacements, result, dropped, parseVars,
                   function_name, params, http_response, instance, orchestration_output, concVars>>

\* a JSON member that may be missing from the request body
Absent == [t |-> "absent", v |-> <<>>]

Member(key, val) == IF val = Absent THEN <<>> ELSE <<[k |-> <<key>>, v |-> val]>>

SingleValues ==
    {Absent, LitV("true"), LitV("false"), StrV(<<"true">>), LitV("1"), LitV("null")}

PayloadValues ==
    {Absent, LitV("null"),
     StrV(<<LBRACE, QUOTE, "Id", QUOTE, ":", "1", RBRACE>>), StrV(<<"null">>),
     StrV(<<"not JSON">>),
     ObjV(<<[k |-> <<"Id">>, v |-> LitV("1")]>>), ObjV(<<>>), ArrV(<<>>)}

DocumentationValues ==
    {Absent, StrV(<<"vector-1725386610272", "-semantic-configuration">>)}

\* what req.get_json() gives: an error for a body that is not JSON, or the value
Bodies ==
    {Raises("ValueError"), Returns(LitV("null")), Returns(LitV("1")), Returns(ObjV(<<>>))}
    \cup {Returns(ObjV(Member("single", s) \o Member("payload", p)
                       \o Member("documentation", d))) :
            s \in SingleValues, p \in PayloadValues, d \in DocumentationValues}

FunctionNames ==
    {NoneV, StrV(<<>>), StrV(<<"release_note_orchestrator">>), StrV(<<"orchestrator">>),
     StrV(<<"other">>)}

AppInit ==
    /\ pc = "idle"
    /\ payload = NoneV
    /\ documentation = NoneV
    /\ use_internal_doc = FALSE
    /\ remove_internal_keywords = FALSE
    /\ RunLocalsInit
    /\ ParseIdle
    /\ function_name \in FunctionNames
    /\ params \in Bodies
    /\ http_response = NoResponse
    /\ instance = NoneV
    /\ apc = "http"
    /\ activity_result = NoneV
    /\ orchestration_output = NoneV
    /\ ConcIdle

AppNext ==
    \/ HttpStart
    \/ OrchestratorStart
    \/ ActivityStart
    \/ Validate
    \/ AnalyzeWorkItem
    \/ GenerateQueries
    \/ SearchQuery
    \/ BuildContext
    \/ GenerateUserImpact
    \/ GenerateStandardNote
    \/ GenerateBulk
    \/ ActivityReturn
    \/ OrchestratorReturn

AppSpec == AppInit /\ [][AppNext]_vars

\* the generator called directly, or through the function app
EntryInit == Init \/ AppInit

EntryNext == Next \/ AppNext

EntrySpec == EntryInit /\ [][EntryNext]_vars

\* the entry points run as straight-line code: a step that can be taken is
\* taken, every completion call returning or raising
FairEntrySpec == EntrySpec /\ WF_vars(EntryNext)

(* ------------------- the bulk clean-up on its own ----------------------- *)

MaxOutputLen == 5

\* what a model output is made of: backquotes, the word after an opening
\* fence, line ends and text
OutputTokens == {Backquote, "markdown", "\n", "text"}

StripInit ==
    /\ pc = "idle"
    /\ payload = NoneV
    /\ documentation = NoneV
    /\ use_internal_doc = FALSE
    /\ remove_internal_keywords = FALSE
    /\ RunLocalsInit
    /\ response \in TextsUpTo(OutputTokens, MaxOutputLen)
    /\ shape = [form |-> "none"]
    /\ parsed = Returns(NoneV)
    /\ pfn = "none"
    /\ AppIdle
    /\ ConcIdle

\* the clean-up applied to the model's output
ApplyStripFences == Apply("strip_fences", Returns(StrV(StripFences(response))))

\* the clean-up applied to what it returned
ApplyStripFencesAgain ==
    /\ pfn = "strip_fences"
    /\ pfn' = "strip_fences_again"
    /\ parsed' = Returns(StrV(StripFences(parsed.val.v)))
    /\ UNCHANGED <<runVars, response, shape, appVars, raised>>

StripNext == ApplyStripFences \/ ApplyStripFencesAgain

StripSpec == StripInit /\ [][StripNext]_vars

(* ------------------- keywords_to_string on its own --------------------- *)

MaxKeywordLen == 2

\* what a keyword is made of: text and commas
KeywordTokens == {"sso", ","}

KeywordLists ==
    {ArrV(l) : l \in ListsUpTo({StrV(x) : x \in TextsUpTo(KeywordTokens, MaxKeywordLen)},
                              MaxKeywords)}

KeywordInit ==
    /\ pc = "idle"
    /\ payload = NoneV
    /\ documentation = NoneV
    /\ use_internal_doc = FALSE
    /\ remove_internal_keywords = FALSE
    /\ RunLocalsInit
    /\ response = <<>>
    /\ \E l \in KeywordLists : shape = [form |-> "keywords", kw |-> l]
    /\ parsed = Returns(NoneV)
    /\ pfn = "none"
    /\ AppIdle
    /\ ConcIdle

\* keywords_to_string applied to the list
ApplyKeywordsToString ==
    Apply("keywords_to_string", Returns(keywords_to_string(shape.kw)))

KeywordNext == ApplyKeywordsToString

KeywordSpec == KeywordInit /\ [][KeywordNext]_vars

(* ------------- two activity invocations running side by side ---------- *)

\* the locals of one activity invocation in single mode: its own generator's
\* run of generate_release_notes, the requests it issued and the answers it got
NewRun(payload_data, documentation_config) ==
    [payload |-> payload_data, documentation |-> documentation_config,
     pc |-> "start", semantic_config |-> NoneV, work_item_details |-> NoneV,
     queries |-> ArrV(<<>>), qi |-> 1, search_results |-> <<>>,
     search_context |-> StrV(<<>>), user_impact |-> NoneV, result |-> NoneV,
     activity_result |-> NoneV, calls |-> <<>>, responses |-> <<>>]

\* the invocation has its call issued and answered
Answered(run, call, outcome) ==
    [run EXCEPT !.calls = Append(@, call), !.responses = Append(@, outcome)]

\* generate_release_notes is over and the activity returns
Finished(run, res) ==
    [run EXCEPT !.pc = "done", !.result = res, !.activity_result = SingleResult(res)]

\* the next step of the invocation is a completion call
AwaitsAnswer(run) ==
    \/ run.pc \in {"analyze", "queries", "impact", "standard_note"}
    \/ /\ run.pc = "search"
       /\ run.qi <= Len(ItemsOf(run.queries))
       /\ ~FailsBeforeSend(ItemsOf(run.queries)[run.qi])

\* one step of the activity in single mode, with use_internal_doc and
\* remove_internal_keywords False, reading the configuration cfg
StepRun(run, cfg, outcome) ==
    CASE run.pc = "start" ->
           IF ~Truthy(run.payload) THEN Finished(run, NoneV)
           ELSE [run EXCEPT !.pc = "analyze",
                            !.semantic_config =
                                OrElse(run.documentation,
                                       StrV(cfg.default_semantic_config))]
      [] run.pc = "analyze" ->
           LET call == Call("analysis", Prompt("INPUT_GENERATOR", <<run.payload>>),
                            NoneV, LLMParameters(max_tokens, temperature, FALSE, FALSE),
                            NoneV)
               details == AnalysisResult(outcome)
           IN IF details.t = "none" THEN Finished(Answered(run, call, outcome), NoneV)
              ELSE [Answered(run, call, outcome) EXCEPT
                        !.work_item_details = details, !.pc = "queries"]
      [] run.pc = "queries" ->
           LET call == Call("queries",
                            Prompt("QUERY_GENERATOR",
                                   <<DetailsDict(run.work_item_details)>>),
                            NoneV, LLMParameters(max_tokens, temperature, FALSE, FALSE),
                            NoneV)
           IN [Answered(run, call, outcome) EXCEPT
                  !.queries = QueriesResult(outcome), !.qi = 1, !.pc = "search"]
      [] run.pc = "search" ->
           IF run.qi > Len(ItemsOf(run.queries))
           THEN [run EXCEPT !.search_context = build_search_context(run.search_results),
                            !.pc = "impact"]
           ELSE LET query == ItemsOf(run.queries)[run.qi]
                    call == Call("retrieval", Prompt("CONTEXT_RETRIEVER", <<>>), query,
                                 LLMParameters(search_max_tokens, search_temperature,
                                               TRUE, FALSE),
                                 run.semantic_config)
                IN IF FailsBeforeSend(query) THEN [run EXCEPT !.qi = @ + 1]
                   ELSE [Answered(run, call, outcome) EXCEPT
                            !.search_results =
                                SearchOutcome(run.search_results, query,
                                              outcome).search_results,
                            !.qi = @ + 1]
      [] run.pc = "impact" ->
           LET call == Call("impact",
                            Prompt("CONTEXT_SUMMARIZER",
                                   <<run.search_context,
                                     run.work_item_details.short_description>>),
                            NoneV, LLMParameters(max_tokens, temperature, FALSE, FALSE),
                            NoneV)
           IN [Answered(run, call, outcome) EXCEPT
                  !.user_impact = ImpactResult(outcome), !.pc = "standard_note"]
      [] run.pc = "standard_note" ->
           LET call == Call("standard_note",
                            Prompt("RELEASE_NOTE_GENERATOR",
                                   <<DetailsDict(run.work_item_details),
                                     run.search_context>>),
                            NoneV, LLMParameters(max_tokens, temperature, FALSE, FALSE),
                            NoneV)
               notes == IF outcome.kind = "raise" THEN ErrorNotes
                        ELSE FinalNotes(EmptyNotes, outcome.val, outcome.val)
           IN Finished(Answered(run, call, outcome),
                       ReleaseNoteResult(run.work_item_details, run.queries,
                                         run.search_context, run.user_impact, notes))
      [] OTHER -> run

\* a step that writes the scope it resolved into the shared configuration
ConfigAfter_cached(cfg, run) ==
    IF run.pc = "start" /\ Truthy(run.documentation)
    THEN [cfg EXCEPT !.default_semantic_config = run.documentation.v]
    ELSE cfg

\* the shared configuration after a step of an invocation: get_semantic_config
\* and get_search_index read it and nothing assigns to it
ConfigAfter(cfg, run) == cfg

\* what the services answer the two invocations
ConcOutcomes(run) ==
    CASE run.pc = "analyze" -> AnalyzerOutcomes
      [] run.pc = "queries" ->
           AnswersOf({RenderQueries(<<<<"Define SSO">>>>),
                      RenderQueries(<<<<"Define SSO">>, <<"Define PVA">>>>)})
      [] run.pc = "search" -> AnswersOf({<<"Single sign-on">>})
      [] run.pc = "impact" -> ImpactOutcomes
      [] run.pc = "standard_note" -> AnswersOf({<<"Sign-in is faster">>})
      [] OTHER -> {}

\* the two work items
ConcPayloads == <<PayloadV(<<"Id", "123">>), PayloadV(<<"Id", "456">>)>>

ConcInit ==
    /\ pc = "idle"
    /\ payload = NoneV
    /\ documentation = NoneV
    /\ use_internal_doc = FALSE
    /\ remove_internal_keywords = FALSE
    /\ RunLocalsInit
    /\ ParseIdle
    /\ AppIdle
    /\ config = AppConfig
    /\ \E d \in [1..2 -> Documentations] :
         runs = [i \in 1..2 |-> NewRun(ConcPayloads[i], d[i])]

\* invocation i takes its next step
ConcStep(i) ==
    /\ runs[i].pc # "done"
    /\ IF AwaitsAnswer(runs[i])
       THEN \E outcome \in ConcOutcomes(runs[i]) :
                runs' = [runs EXCEPT ![i] = StepRun(runs[i], config, outcome)]
       ELSE runs' = [runs EXCEPT ![i] = StepRun(runs[i], config, Returns(NoneV))]
    /\ config' = ConfigAfter(config, runs[i])
    /\ UNCHANGED <<runVars, parseVars, raised, function_name, params, http_response,
                   instance, apc, activity_result, orchestration_output>>

ConcNext == \E i \in 1..2 : ConcStep(i)

ConcSpec == ConcInit /\ [][ConcNext]_vars

(* ------------------- WorkItemInput and its serialization --------------- *)

\* the payloads of the inputs: what a request's JSON can hold
RoundTripPayloads ==
    {ObjV(<<>>), ArrV(<<>>), StrV(<<"text">>),
     ObjV(<<[k |-> <<"Id">>, v |-> LitV("1")]>>),
     ObjV(<<[k |-> <<"Title">>, v |-> StrV(<<"Fix SSO">>)],
            [k |-> <<"Tags">>, v |-> ArrV(<<StrV(<<"sso">>), LitV("null")>>)],
            [k |-> <<"Fields">>, v |-> ObjV(<<[k |-> <<"Done">>, v |-> LitV("true")]>>)]>>)}

RoundTripInputs ==
    {WorkItemInputV(s, p, d) :
        s \in {LitV("true"), LitV("false")}, p \in RoundTripPayloads,
        d \in Documentations}

\* dictionaries that hold some of the three keys
PartialDicts ==
    {ObjV(Member("single", s) \o Member("payload", p) \o Member("documentation", d)) :
        s \in {Absent, LitV("true"), LitV("false")},
        p \in {Absent, ObjV(<<>>), ObjV(<<[k |-> <<"Id">>, v |-> LitV("1")]>>)},
        d \in DocumentationValues}

RoundTripInit ==
    /\ pc = "idle"
    /\ payload = NoneV
    /\ documentation = NoneV
    /\ use_internal_doc = FALSE
    /\ remove_internal_keywords = FALSE
    /\ RunLocalsInit
    /\ response = <<>>
    /\ \/ \E x \in RoundTripInputs : shape = [form |-> "input", x |-> x]
       \/ \E d \in PartialDicts : shape = [form |-> "dict", x |-> d]
    /\ parsed = Returns(NoneV)
    /\ pfn = "none"
    /\ AppIdle
    /\ ConcIdle

\* one more conversion of what the last one returned
Convert(from, fn, out) ==
    /\ pfn = from
    /\ pfn' = fn
    /\ parsed' = out
    /\ UNCHANGED <<runVars, response, shape, appVars, raised>>

ApplyToDict == shape.form = "input" /\ Convert("none", "to_dict", Returns(to_dict(shape.x)))

ApplyFromDictBack ==
    shape.form = "input" /\ Convert("to_dict", "from_dict(to_dict)", Returns(from_dict(parsed.val)))

ApplyToJson ==
    shape.form = "input" /\ Convert("none", "to_json", Returns(StrV(to_json(shape.x))))

ApplyFromJsonBack ==
    shape.form = "input" /\ Convert("to_json", "from_json(to_json)", from_json(parsed.val.v))

\* release_note_orchestrator converting a dictionary input
ApplyFromDict == shape.form = "dict" /\ Convert("none", "from_dict", Returns(from_dict(shape.x)))

RoundTripNext ==
    \/ ApplyToDict
    \/ ApplyFromDictBack
    \/ ApplyToJson
    \/ ApplyFromJsonBack
    \/ ApplyFromDict

RoundTripSpec == RoundTripInit /\ [][RoundTripNext]_vars

(* ------------------------------ properties ----------------------------- *)

\* the text holds a JSON object the parsers can read
HasJsonObject(text) == JsonMatch(text).found /\ json_loads(JsonMatch(text).group).ok

CallsOfKind(kind) == {i \in 1..Len(calls) : calls[i].kind = kind}

UsesRetrieval(call) == call.request.extra_body.t = "azure_search"

\* C1: in single mode, when the analysis call raises or its answer holds no
\* parseable JSON object, _analyze_work_item returns None, generate_release_notes
\* returns None, and the analysis call stays the only call of the run.
C1_AnalysisFailureEndsRun ==
    /\ (Len(calls) = 1 /\ (last.kind = "raise" \/ ~HasJsonObject(last.val.v)))
           => (work_item_details = NoneV /\ result = NoneV /\ pc = "done")
    /\ (work_item_details = NoneV /\ Len(calls) >= 1)
           => (Len(calls) = 1 /\ calls[1].kind = "analysis"
               /\ result = NoneV /\ pc = "done")

C1_Witness ==
    /\ pc = "done"
    /\ Len(calls) = 1
    /\ last.kind = "return"
    /\ ~HasJsonObject(last.val.v)
    /\ result = NoneV

\* C2: with internal-documentation mode on, when the RAG_ReleaseNote call fails
\* (and the standard-note call does not), the returned map holds "ReleaseNote",
\* does not hold "RAG_ReleaseNote", and no key holds an error string.
C2_RagFailureKeepsStandardNote ==
    (pc = "done" /\ use_internal_doc /\ "rag_note" \in failed
                 /\ "standard_note" \notin failed)
        => /\ "ReleaseNote" \in DOMAIN release_notes
           /\ "RAG_ReleaseNote" \notin DOMAIN release_notes
           /\ \A k \in DOMAIN release_notes : release_notes[k] # ErrorNote
           /\ CallsOfKind("standard_note") # {}

\* C3: a request built with a non-empty additional context carries it: without
\* retrieval as the addendum that follows the prompt, with retrieval as the
\* query subject, so that two retrieval requests of the same kind that were
\* given different queries are different requests.
C3_RequestCarriesAdditionalContext ==
    /\ \A i \in 1..Len(calls) :
          (Truthy(calls[i].additional_info) /\ ~UsesRetrieval(calls[i]))
              => calls[i].request.content.addendum = calls[i].additional_info
    /\ \A i, j \in 1..Len(calls) :
          (/\ UsesRetrieval(calls[i]) /\ UsesRetrieval(calls[j])
           /\ calls[i].kind = calls[j].kind
           /\ Truthy(calls[i].additional_info) /\ Truthy(calls[j].additional_info)
           /\ calls[i].additional_info # calls[j].additional_info)
              => calls[i].request # calls[j].request

\* the knowledge index and ranking profile a retrieval request resolves to
Scope(call) ==
    <<call.request.extra_body.index_name, call.request.extra_body.semantic_configuration>>

\* C4: for every keyword, the ProductLookup request and the InternalLookup
\* request resolve to different retrieval scopes.
C4_LookupScopesDiffer ==
    \A i \in CallsOfKind("product_lookup"), j \in CallsOfKind("internal_lookup") :
        calls[i].additional_info = calls[j].additional_info
            => Scope(calls[i]) # Scope(calls[j])

\* C5: no note of the returned variant map holds a markdown code fence.
C5_NoFenceInNotes ==
    pc = "done" =>
        \A k \in DOMAIN release_notes : ~Contains(release_notes[k].v, Fence)

\* C6: for an answer holding {"queries": [...]}, plan returns that list in the
\* same order; for every other answer plan returns the empty list.
C6_PlanReturnsTheList ==
    pfn = "plan" =>
        IF shape.form = "queries"
        THEN parsed = Returns(StrList(shape.list))
        ELSE parsed = Returns(ArrV(<<>>))

\* C7: for an answer holding one flat JSON object with the four keys, with or
\* without prose around it, analyze returns the details with exactly those four
\* values; for an answer with no {...} substring analyze returns None.
C7_AnalyzeReturnsTheFourValues ==
    pfn = "analyze" =>
        /\ shape.form = "details"
              => parsed = Returns(WorkItemDetailsV(StrV(shape.sd), StrV(shape.ci),
                                                   StrV(shape.at), StrList(shape.kw)))
        /\ ~JsonMatch(response).found => parsed = Returns(NoneV)

\* the number of entries of AggregatedContext
ContextEntries == IF search_context.t = "json" THEN Len(search_context.v) ELSE 0

ContextBuilt == pc \in {"impact", "rag_note", "standard_note", "keyword_extract",
                        "product_lookup", "internal_lookup", "rewrite", "done"}
                /\ work_item_details # NoneV

\* C8: after retrieval and context building, AggregatedContext has at least as
\* many entries as there were input queries minus the dropped ones.
C8_ContextKeepsEveryAnswer ==
    ContextBuilt => ContextEntries >= Len(ItemsOf(queries)) - dropped

\* C9: AggregatedContext holds no entry whose answer contains a no-information
\* marker.
C9_NoMarkerInContext ==
    /\ \A i \in 1..Len(search_results) :
          /\ ~Contains(search_results[i].content.v, NoRelevantMarker)
          /\ ~Contains(search_results[i].content.v, RequestedMarker)
    /\ search_context.t = "json" =>
          \A i \in 1..Len(search_context.v) :
              /\ ~Contains(search_context.v[i].v, NoRelevantMarker)
              /\ ~Contains(search_context.v[i].v, RequestedMarker)

C9_Witness ==
    /\ pc = "impact"
    /\ last.kind = "return"
    /\ Contains(last.val.v, RequestedMarker)
    /\ ContextEntries = 1
    /\ Len(ItemsOf(queries)) = 2

\* C10: when the retrieval call for one query raises, the query is dropped and
\* nothing else changes: the answers collected so far stay, the loop goes on to
\* the next query, every query gets its request, and the run goes on to impact
\* synthesis and note composition and returns a result.
C10_RetrievalFailureStep ==
    (pc = "search" /\ Len(calls') = Len(calls) + 1 /\ last'.kind = "raise")
        => /\ search_results' = search_results
           /\ dropped' = dropped + 1
           /\ qi' = qi + 1
           /\ pc' = "search"
           /\ UNCHANGED <<queries, search_context, release_notes, result>>

C10_RetrievalFailureInv ==
    "retrieval" \in failed =>
        /\ ContextBuilt => Cardinality(CallsOfKind("retrieval")) = Len(ItemsOf(queries))
        /\ pc = "done" =>
              /\ result # NoneV
              /\ CallsOfKind("impact") # {}
              /\ CallsOfKind("rag_note") \cup CallsOfKind("standard_note") # {}

C10_RetrievalFailureIsADrop ==
    [][C10_RetrievalFailureStep]_vars /\ []C10_RetrievalFailureInv

C10_Witness ==
    /\ pc = "done"
    /\ "retrieval" \in failed
    /\ Len(search_results) >= 1
    /\ "ReleaseNote" \in DOMAIN release_notes
    /\ failed = {"retrieval"}


\* the fallback string the design document names for a failed impact call
DocumentedImpactFallback == StrV(<<"impact undetermined">>)

ImpactFailed == "impact" \in failed

\* C11 as documented: when the impact-synthesis call fails, summarize returns
\* the string "impact undetermined", and the run goes on to note composition
\* and returns a map holding "ReleaseNote".
C11_FallbackIsImpactUndetermined ==
    ImpactFailed =>
        /\ user_impact = DocumentedImpactFallback
        /\ pc = "done" => (result # NoneV /\ "ReleaseNote" \in DOMAIN release_notes)

\* C11 amended: when the impact-synthesis call fails, summarize returns the
\* string "Unable to determine user impact", the failure is not propagated, and
\* the run goes on to note composition and returns a map holding "ReleaseNote".
C11_FallbackOnImpactFailure ==
    ImpactFailed =>
        /\ user_impact = StrV(<<"Unable to determine user impact">>)
        /\ pc # "done" => pc \in {"rag_note", "standard_note", "keyword_extract",
                                  "product_lookup", "internal_lookup", "rewrite"}
        /\ pc = "done" =>
              /\ result # NoneV
              /\ result.user_impact = StrV(<<"Unable to determine user impact">>)
              /\ "ReleaseNote" \in DOMAIN release_notes
              /\ CallsOfKind("rag_note") \cup CallsOfKind("standard_note") # {}

C11_Witness ==
    /\ pc = "done"
    /\ failed = {"impact"}
    /\ "ReleaseNote" \in DOMAIN release_notes
    /\ release_notes["ReleaseNote"] = standard_note


\* the run is over and neither the analysis nor the standard-note call failed
CompletedRun ==
    /\ pc = "done"
    /\ result # NoneV
    /\ "standard_note" \notin failed

RagSucceeded == CallsOfKind("rag_note") # {} /\ "rag_note" \notin failed

\* C12: when a run completes without a terminal failure the variant map holds
\* "ReleaseNote", and it holds "RAG_ReleaseNote" exactly when internal
\* documentation mode was requested and the RAG call succeeded.
C12_VariantKeys ==
    CompletedRun =>
        /\ "ReleaseNote" \in DOMAIN release_notes
        /\ "RAG_ReleaseNote" \in DOMAIN release_notes
               <=> (use_internal_doc /\ RagSucceeded)
        /\ result.release_notes = release_notes

C12_Witness ==
    /\ CompletedRun
    /\ use_internal_doc
    /\ remove_internal_keywords
    /\ RagSucceeded
    /\ "RAG_ReleaseNote" \in DOMAIN release_notes
    /\ release_notes["RAG_ReleaseNote"] # release_notes["ReleaseNote"]


\* no keyword of the note was extracted: the extraction call was not made or
\* gave no keyword
NoKeywordFound == ~Truthy(keywords)

\* C13: every variant map returned by note composition that holds
\* "ReleaseNote" also holds "ReleaseNote_withoutKeywords", whose value is that
\* of "ReleaseNote" when keyword removal is disabled or no keyword was found.
C13_WithoutKeywordsPresent ==
    (pc = "done" /\ result # NoneV /\ "ReleaseNote" \in DOMAIN release_notes)
        => /\ "ReleaseNote_withoutKeywords" \in DOMAIN release_notes
           /\ (~remove_internal_keywords \/ NoKeywordFound)
                  => release_notes["ReleaseNote_withoutKeywords"]
                         = release_notes["ReleaseNote"]


LookupKinds == {"product_lookup", "internal_lookup", "rewrite"}

\* C14: when a call after keyword extraction fails (a product lookup, an
\* internal lookup or the rewrite), terminology resolution does not raise: no
\* further call is made and the note it was given comes back unchanged as the
\* jargon-free variant, also when replacements had already been recorded.
C14_LookupFailureKeepsNote ==
    (failed \cap LookupKinds # {}) =>
        /\ pc = "done"
        /\ last.kind = "raise"
        /\ calls[Len(calls)].kind \in LookupKinds
        /\ result # NoneV
        /\ {"ReleaseNote", "ReleaseNote_withoutKeywords"} \subseteq DOMAIN release_notes
        /\ release_notes["ReleaseNote_withoutKeywords"] = standard_note
        /\ release_notes["ReleaseNote"] = standard_note

C14_Witness ==
    /\ pc = "done"
    /\ failed = {"product_lookup"}
    /\ replacements # <<>>
    /\ release_notes["ReleaseNote_withoutKeywords"] = standard_note


\* this step issues a call of the given kind
Issues(kind) == Len(calls') = Len(calls) + 1 /\ calls'[Len(calls')].kind = kind

\* an internal lookup is issued right after the product lookup of the same
\* keyword has returned an answer holding the marker
C15_InternalAfterMarker ==
    Issues("internal_lookup") =>
        /\ Len(calls) >= 1
        /\ calls[Len(calls)].kind = "product_lookup"
        /\ calls[Len(calls)].additional_info = calls'[Len(calls')].additional_info
        /\ last.kind = "return"
        /\ Contains(last.val.v, RequestedMarker)

\* a product lookup whose answer lacks the marker records nothing and does not
\* lead to the internal lookup
C15_SkipWithoutMarker ==
    (Issues("product_lookup") /\ last'.kind = "return"
                              /\ ~Contains(last'.val.v, RequestedMarker))
        => /\ replacements' = replacements
           /\ pc' # "internal_lookup"

\* C15: for every keyword the InternalLookup request is issued only after the
\* ProductLookup answer for that keyword has been received and holds the marker
\* "requested information is not"; without the marker no InternalLookup is
\* issued for the keyword and no replacement is recorded for it.
C15_InternalLookupOnlyOnAbsence ==
    [][C15_InternalAfterMarker /\ C15_SkipWithoutMarker]_vars

C15_Witness ==
    /\ Len(calls) >= 3
    /\ calls[Len(calls)].kind = "internal_lookup"
    /\ calls[Len(calls) - 1].kind = "product_lookup"
    /\ calls[Len(calls) - 2].kind = "product_lookup"
    /\ last.kind = "return"
    /\ Len(replacements) = 1
    /\ replacements[1].k = ItemsOf(keywords)[2].v


\* the values the replacement map holds for a keyword
ReplacementsOf(reps, key) == {reps[i].v : i \in {n \in 1..Len(reps) : reps[n].k = key}}

\* an internal lookup that returns leaves its answer as the keyword's entry and
\* the entries of the other keywords as they were
C16_AnswerRecorded ==
    (Issues("internal_lookup") /\ last'.kind = "return") =>
        LET keyword == calls'[Len(calls')].additional_info.v
        IN /\ ReplacementsOf(replacements', keyword) = {last'.val.v}
           /\ \A i \in 1..Len(replacements) :
                 replacements[i].k # keyword
                     => ReplacementsOf(replacements', replacements[i].k)
                            = {replacements[i].v}

\* keyword "PVA" alone with its internal answer gives the one-entry map
C16_Example ==
    (/\ pc = "rewrite"
     /\ ItemsOf(keywords) = <<StrV(<<"PVA">>)>>
     /\ calls[Len(calls)].kind = "internal_lookup"
     /\ last = Returns(StrV(<<"Personal Virtual Assistant, a chat agent.">>)))
        => replacements = <<[k |-> <<"PVA">>,
                             v |-> <<"Personal Virtual Assistant, a chat agent.">>]>>

\* C16: whenever InternalLookup is reached for a keyword and returns, its
\* answer is recorded verbatim as that keyword's entry of the replacement map,
\* whatever it contains: no no-information marker is looked for at this tier.
C16_InternalAnswerRecordedVerbatim ==
    [][C16_AnswerRecorded]_vars /\ []C16_Example

C16_Witness ==
    /\ pc = "rewrite"
    /\ Len(replacements) = 2
    /\ Contains(replacements[1].v, RequestedMarker)
    /\ replacements[2].v = <<"Personal Virtual Assistant, a chat agent.">>


\* once every keyword has been looked up, the rewrite call is issued when the
\* replacement map holds an entry and only then
C17_RewriteStep ==
    /\ (pc = "rewrite" /\ pc' # "rewrite") => (Issues("rewrite") <=> replacements # <<>>)
    /\ Issues("rewrite") => (pc = "rewrite" /\ replacements # <<>>)

\* with an empty map no rewrite call is made and the jargon-free variant is the
\* note that was given
C17_EmptyMapKeepsNote ==
    /\ CallsOfKind("rewrite") # {} => replacements # <<>>
    /\ (/\ pc = "done"
        /\ remove_internal_keywords
        /\ CallsOfKind("keyword_extract") # {}
        /\ replacements = <<>>)
           => /\ CallsOfKind("rewrite") = {}
              /\ "ReleaseNote_withoutKeywords" \in DOMAIN release_notes
              /\ release_notes["ReleaseNote_withoutKeywords"] = standard_note

\* C17: terminology resolution issues the final rewrite call exactly when the
\* replacement map is non-empty after the lookups; with an empty map (the
\* extraction did not parse, named no keyword, or every keyword was found in
\* the product documentation) no rewrite call is issued and the jargon-free
\* variant is the input note unchanged.
C17_RewriteIffReplacements ==
    [][C17_RewriteStep]_vars /\ []C17_EmptyMapKeepsNote

C17_Witness ==
    /\ pc = "done"
    /\ CallsOfKind("rewrite") # {}
    /\ calls[Len(calls)].kind = "rewrite"
    /\ last.kind = "return"
    /\ replacements # <<>>
    /\ release_notes["ReleaseNote_withoutKeywords"] = last.val
    /\ release_notes["ReleaseNote_withoutKeywords"] # standard_note


\* the request body is a JSON object that lacks 'single' or 'payload', or whose
\* 'single' is not a boolean, or whose payload is null or a string that is not
\* JSON
BadRequest ==
    /\ params.kind = "return"
    /\ params.val.t = "obj"
    /\ \/ ~HasKey(params.val, "single")
       \/ ~HasKey(params.val, "payload")
       \/ DictGet(params.val, <<"single">>, NoneV) \notin {LitV("true"), LitV("false")}
       \/ DictGet(params.val, <<"payload">>, NoneV) = LitV("null")
       \/ /\ DictGet(params.val, <<"payload">>, NoneV).t = "str"
          /\ ~json_loads(DictGet(params.val, <<"payload">>, NoneV).v).ok

\* C18: a request with a missing 'single' key, a missing 'payload' key, a
\* non-boolean 'single', a null payload or a payload string that is not valid
\* JSON is rejected by validate_and_parse_request with a 400 response, and
\* http_start starts no orchestration: the input never reaches the pipeline.
C18_BadRequestRejected ==
    BadRequest =>
        /\ ~validate_and_parse_request(params).ok
        /\ validate_and_parse_request(params).response.status = 400
        /\ instance = NoneV
        /\ calls = <<>>
        /\ pc = "idle"
        /\ apc \in {"http", "responded"}
        /\ apc = "responded" => http_response.status = 400

C18_Witness ==
    /\ apc = "responded"
    /\ BadRequest
    /\ function_name = StrV(<<"release_note_orchestrator">>)
    /\ HasKey(params.val, "payload")
    /\ DictGet(params.val, <<"payload">>, NoneV).t = "obj"
    /\ DictGet(params.val, <<"single">>, NoneV) = LitV("1")
    /\ http_response.status = 400


\* C19: the entry points never raise. Whatever the input and whichever
\* external calls fail, no exception leaves the activity,
\* ReleaseNoteGenerator.generate_release_notes or generate_bulk_release_notes:
\* the activity returns a string, generate_release_notes a result or None,
\* generate_bulk_release_notes a string.
C19_EntryPointsNeverRaise ==
    /\ raised = {}
    /\ apc \in {"returned", "completed"} => activity_result.t = "str"
    /\ pc = "done" => (result = NoneV \/ result.t = "result")
    /\ (pc = "done" /\ CallsOfKind("bulk") # {}) =>
           (activity_result.t = "str" /\ activity_result.v # <<>>)

C19_Witness ==
    /\ apc = "returned"
    /\ calls = <<>>
    /\ activity_result = StrV(<<"Error generating release notes: ", "ConfigurationError">>)


\* the activity has returned from a single-item run of the pipeline
SingleRunReturned ==
    /\ apc \in {"returned", "completed"}
    /\ Truthy(instance.single)
    /\ calls # <<>>

\* the analysis or the standard-note call of the run failed
TerminalFailure == work_item_details = NoneV \/ "standard_note" \in failed

\* C20: for a single-item request the value returned to the scheduler is the
\* "ReleaseNote" text, or on a terminal failure (the analysis failed, the
\* standard-note call failed) a structured failure object that cannot be taken
\* for a release note: never an error message returned as the note.
C20_StructuredFailure ==
    SingleRunReturned =>
        IF TerminalFailure
        THEN activity_result.t # "str"
        ELSE /\ activity_result = release_notes["ReleaseNote"]
             /\ activity_result = last.val


\* ---- C21 ----

\* the activity has taken a request and chosen the path of its run
ActivityChose == apc \in {"running", "returned", "completed"} /\ instance # NoneV

\* C21: a run whose request has single = false issues exactly one completion
\* call, the bulk formatter's, without retrieval, and no call of the per-item
\* pipeline; a run whose request has single = true never issues the bulk
\* formatter's call
C21_ModeSelectsPath ==
    ActivityChose =>
        IF Truthy(instance.single)
        THEN CallsOfKind("bulk") = {}
        ELSE /\ \A i \in 1..Len(calls) :
                  calls[i].kind = "bulk" /\ ~UsesRetrieval(calls[i])
             /\ Len(calls) <= 1
             /\ pc = "done" => Len(calls) = 1

\* a bulk run that is over, and its one call
C21_Witness ==
    /\ ActivityChose
    /\ ~Truthy(instance.single)
    /\ pc = "done"
    /\ Len(calls) = 1
    /\ calls[1].kind = "bulk"

\* a single run that issued calls of the per-item pipeline
C21_WitnessSingle ==
    /\ ActivityChose
    /\ Truthy(instance.single)
    /\ pc = "done"
    /\ CallsOfKind("analysis") # {}
    /\ CallsOfKind("standard_note") # {}


\* ---- C22 ----

\* C22: for every model output the bulk clean-up is idempotent, applying it to
\* its own result changes nothing, and its result contains no code fence
C22_StripFencesIdempotent ==
    /\ pfn \in {"strip_fences", "strip_fences_again"} =>
           ~Contains(parsed.val.v, Fence)
    /\ pfn = "strip_fences_again" => parsed = Returns(StrV(StripFences(response)))

\* an output with a fence and a closing line end, cleaned twice
C22_Witness ==
    /\ pfn = "strip_fences_again"
    /\ Contains(response, Fence)
    /\ response[Len(response)] = "\n"
    /\ parsed.val.v # <<>>


\* ---- C23 ----

\* the retrieval scope the run's request resolves to
ResolvedScope ==
    IF documentation # NoneV THEN documentation.v ELSE default_semantic_config

\* C23: the retrieval scope of a run is the request's documentation value when
\* the request names one and the process-wide default when it names none, and
\* every retrieval-augmented call of the run carries this scope, as its
\* ranking profile and, less the suffix, as its index
C23_ScopeFromRequestOrDefault ==
    \A i \in 1..Len(calls) :
        UsesRetrieval(calls[i]) =>
            Scope(calls[i]) = <<get_search_index(ResolvedScope), ResolvedScope>>

\* a finished run for a request naming its documentation, with retrieval
\* calls of the query stage, the note stage and the keyword stage
C23_Witness ==
    /\ pc = "done"
    /\ documentation # NoneV
    /\ documentation.v # default_semantic_config
    /\ CallsOfKind("retrieval") # {}
    /\ CallsOfKind("rag_note") # {}
    /\ CallsOfKind("product_lookup") # {}

\* a finished run for a request naming none, with retrieval calls
C23_WitnessDefault ==
    /\ pc = "done"
    /\ documentation = NoneV
    /\ CallsOfKind("retrieval") # {}
    /\ CallsOfKind("rag_note") # {}


\* ---- C24 ----

\* a WorkItemDetails came back from analyze
DetailsReturned ==
    /\ pfn = "analyze"
    /\ parsed.kind = "return"
    /\ parsed.val.t = "details"

\* C24: every WorkItemDetails that analyze returns has no null field: its
\* short description, customer impact and activity type are strings and its
\* keywords are a list
C24_NoNullField ==
    DetailsReturned =>
        /\ parsed.val.short_description.t = "str"
        /\ parsed.val.customer_impact.t = "str"
        /\ parsed.val.activity_type.t = "str"
        /\ parsed.val.keywords.t = "arr"

\* the defaults taken for a JSON object that leaves the fields out
C24_DefaultsForOmitted ==
    /\ DetailsReturned
    /\ parsed.val.customer_impact = StrV(<<>>)
    /\ parsed.val.keywords = ArrV(<<>>)


\* ---- C25 ----

\* the planner's batch is empty: it returned none, its answer did not parse or
\* its call failed
NoQueries == ContextBuilt /\ ItemsOf(queries) = <<>>

\* no query of the batch left an answer behind
NothingRetained == ContextBuilt /\ dropped = Len(ItemsOf(queries))

\* C25: when the planner yields no query, or every query is dropped, the run
\* is not a failure: no context-retrieval request follows an empty batch, the
\* aggregated context is the empty string, and impact synthesis and note
\* composition still run and the run returns a "ReleaseNote"
C25_EmptyBatchIsNotAFailure ==
    /\ NoQueries => CallsOfKind("retrieval") = {}
    /\ NothingRetained => search_context = StrV(<<>>)
    /\ NothingRetained /\ pc = "done" =>
           /\ CallsOfKind("impact") # {}
           /\ CallsOfKind("standard_note") \cup CallsOfKind("rag_note") # {}
           /\ result # NoneV
           /\ "ReleaseNote" \in DOMAIN result.release_notes

\* a finished run whose planner call failed
C25_Witness ==
    /\ NoQueries
    /\ pc = "done"
    /\ "queries" \in failed
    /\ result # NoneV

\* a finished run whose queries were all dropped
C25_WitnessDropped ==
    /\ NothingRetained
    /\ pc = "done"
    /\ dropped > 0
    /\ result # NoneV


\* ---- C27 ----

\* the place in the aggregated context of the entry keyed "Query: <q>", 0 when
\* there is none
EntryIndex(q) ==
    LET at == {n \in 1..ContextEntries : search_context.v[n].k = <<"Query: ">> \o q.v}
    IN IF at = {} THEN 0 ELSE CHOOSE n \in at : TRUE

\* C27: the entries of the aggregated context stand in the order in which the
\* retained queries were evaluated: the entry of a retained query precedes the
\* entry of another exactly when it was evaluated before it, and every entry
\* maps "Query: <q>" to "Answer: <a>" for an answer received for q
C27_ContextInEvaluationOrder ==
    ContextBuilt =>
        /\ \A i, j \in 1..Len(search_results) :
              i < j <=> /\ EntryIndex(search_results[i].query) # 0
                        /\ EntryIndex(search_results[i].query)
                              < EntryIndex(search_results[j].query)
        /\ \A n \in 1..ContextEntries :
              \E i \in 1..Len(search_results) :
                  /\ search_context.v[n].k = <<"Query: ">> \o search_results[i].query.v
                  /\ search_context.v[n].v = <<"Answer: ">> \o search_results[i].content.v

\* two retained queries of different text, each with its entry, in order
C27_DistinctQueriesInOrder ==
    /\ ContextBuilt
    /\ Len(search_results) = 2
    /\ EntryIndex(search_results[1].query) = 1
    /\ EntryIndex(search_results[2].query) = 2


\* ---- C28 ----

\* the two names the claim lists
ListedName ==
    function_name \in {StrV(<<"orchestrator">>), StrV(<<"release_note_orchestrator">>)}

\* C28: validate_function_name accepts "orchestrator" and
\* "release_note_orchestrator" and rejects every other name, the empty string
\* and None among them; for a rejected name http_start answers 400 and starts
\* no orchestration
C28_OnlyListedNamesAccepted ==
    /\ apc # "none" => (validate_function_name(function_name) <=> ListedName)
    /\ apc \notin {"none", "http"} /\ ~ListedName =>
           /\ apc = "responded"
           /\ http_response.status = 400
           /\ instance = NoneV
           /\ calls = <<>>
           /\ pc = "idle"

\* a well-formed request under the empty name, answered
C28_Witness ==
    /\ apc = "responded"
    /\ function_name = StrV(<<>>)
    /\ validate_and_parse_request(params).ok
    /\ http_response.status = 400

\* a well-formed request under a name that is not listed, answered
C28_WitnessOther ==
    /\ apc = "responded"
    /\ function_name = StrV(<<"other">>)
    /\ validate_and_parse_request(params).ok
    /\ http_response.status = 400


\* ---- C29 ----

\* str.split(",") on a text: the pieces between the commas
RECURSIVE Split(_)
Split(s) ==
    LET i == FindFrom(s, 1, ",")
    IN IF i = 0 THEN <<StrV(s)>>
       ELSE <<StrV(SubSeq(s, 1, i - 1))>> \o Split(SubSeq(s, i + 1, Len(s)))

Joined == pfn = "keywords_to_string"

SomeComma == \E i \in 1..Len(shape.kw.v) : Contains(shape.kw.v[i].v, <<",">>)

\* C29, as claimed: splitting the result of keywords_to_string on "," gives
\* back the original list when no keyword contains a comma, and does not when
\* some keyword contains one
C29_SplitInvertsJoin ==
    Joined =>
        /\ ~SomeComma => Split(parsed.val.v) = shape.kw.v
        /\ SomeComma => Split(parsed.val.v) # shape.kw.v

\* C29, amended: keywords_to_string joins with "," and no escaping; splitting
\* its result on "," gives back the original list when the list is not empty
\* and no keyword contains a comma, and does not when some keyword contains
\* one; the empty list gives the empty string, which splits into one empty piece
C29_SplitInvertsJoinOfNonEmpty ==
    Joined =>
        /\ shape.kw.v # <<>> /\ ~SomeComma => Split(parsed.val.v) = shape.kw.v
        /\ SomeComma => Split(parsed.val.v) # shape.kw.v
        /\ shape.kw.v = <<>> => parsed.val = StrV(<<>>) /\ Split(parsed.val.v) = <<StrV(<<>>)>>

\* two keywords without a comma, joined
C29_Witness ==
    /\ Joined
    /\ ~SomeComma
    /\ Len(shape.kw.v) = 2
    /\ parsed.val = StrV(<<"sso", ",", "sso">>)

\* a keyword with a comma, joined
C29_WitnessComma ==
    /\ Joined
    /\ SomeComma
    /\ Len(shape.kw.v) = 1


\* ---- C30 ----

\* C30: the batch of queries that plan returns, and so the number of queries
\* handed to retrieval and of context-retrieval requests, is at most the design
\* size of five, whatever the planner's answer holds
C30_BatchWithinDesignSize ==
    pfn = "plan" /\ parsed.kind = "return" =>
        Len(ItemsOf(parsed.val)) <= QueryBatchSize

\* plan returning the batch of an answer with no more than five queries
C30_BatchReturned ==
    /\ pfn = "plan"
    /\ shape.form = "queries"
    /\ parsed = Returns(StrList(shape.list))
    /\ Len(shape.list) = MaxListLen


\* ---- C26 ----

\* the invocation run on its own: the steps of StepRun taken one after the
\* other under the configuration as loaded, with the given service answers
RECURSIVE Replay(_, _)
Replay(run, answers) ==
    IF run.pc = "done" THEN run
    ELSE IF ~AwaitsAnswer(run) THEN Replay(StepRun(run, AppConfig, Returns(NoneV)), answers)
    ELSE IF answers = <<>> THEN run
    ELSE Replay(StepRun(run, AppConfig, Head(answers)), Tail(answers))

Alone(run) == Replay(NewRun(run.payload, run.documentation), run.responses)

C26_WitnessInterleaved ==
    /\ DOMAIN runs = 1..2
    /\ runs[1].pc = "impact"
    /\ runs[2].pc = "search"
    /\ runs[2].search_results # <<>>


\* ---- C31 ----

\* the place of a call's stage in the order of the pipeline
StageRank(kind) ==
    CASE kind = "analysis" -> 1
      [] kind = "queries" -> 2
      [] kind = "retrieval" -> 3
      [] kind = "impact" -> 4
      [] kind = "rag_note" -> 5
      [] kind = "standard_note" -> 6
      [] kind = "keyword_extract" -> 7
      [] kind \in {"product_lookup", "internal_lookup"} -> 8
      [] kind = "rewrite" -> 9
      [] OTHER -> 0

\* the calls of one kind, in the order they were issued
CallSeq(kind) == SelectSeq(calls, LAMBDA c : c.kind = kind)

Issued(kind) == CallsOfKind(kind) # {}

\* a step issues at most one call, after the calls issued before it
C31_OneCallAtATime ==
    \/ calls' = calls
    \/ /\ Len(calls') = Len(calls) + 1
       /\ SubSeq(calls', 1, Len(calls)) = calls

\* the calls issued so far follow the order of the stages
C31_StageOrder ==
    /\ \A i, j \in 1..Len(calls) :
          i < j => StageRank(calls[i].kind) <= StageRank(calls[j].kind)
    /\ \A kind \in {"analysis", "queries", "impact", "rag_note", "standard_note",
                     "keyword_extract", "rewrite"} :
          Cardinality(CallsOfKind(kind)) <= 1
    /\ calls # <<>> => calls[1].kind = "analysis"
    /\ Len(calls) >= 2 => calls[2].kind = "queries"
    /\ Issued("rag_note") \/ Issued("standard_note") => Issued("impact")
    /\ Issued("keyword_extract") => Issued("standard_note")
    /\ Issued("product_lookup") => Issued("keyword_extract")
    /\ Issued("rewrite") => Issued("product_lookup")
    /\ Len(CallSeq("retrieval")) <= Len(ItemsOf(queries))
    /\ \A k \in 1..Len(CallSeq("retrieval")) :
          CallSeq("retrieval")[k].additional_info = ItemsOf(queries)[k]
    /\ Issued("impact") => Len(CallSeq("retrieval")) = Len(ItemsOf(queries))
    /\ \A k \in 1..Len(CallSeq("product_lookup")) :
          CallSeq("product_lookup")[k].additional_info = ItemsOf(keywords)[k]
    /\ \A i \in CallsOfKind("internal_lookup") :
          /\ calls[i - 1].kind = "product_lookup"
          /\ calls[i - 1].additional_info = calls[i].additional_info
    /\ Issued("rewrite") =>
          Len(CallSeq("product_lookup")) = Len(ItemsOf(keywords))

\* C31: in every single-mode run the calls are issued one at a time in the
\* order analysis, query planning, one retrieval request per query in query
\* order (one each, none repeated, also after a drop or a failure), impact
\* synthesis, note composition, and, when enabled, keyword extraction and the
\* lookups of the keywords in keyword order
C31_CallsInStageOrder == [][C31_OneCallAtATime]_vars /\ []C31_StageOrder

\* a finished run with every stage's call, one retrieval request failed and
\* two keywords looked up
C31_Witness ==
    /\ pc = "done"
    /\ Len(CallSeq("retrieval")) = 2
    /\ "retrieval" \in failed
    /\ Issued("rag_note")
    /\ Len(CallSeq("product_lookup")) = 2
    /\ Issued("internal_lookup")
    /\ Issued("rewrite")


\* ---- C32 ----

\* C32: the standard note's request does not depend on the impact summary: it
\* is made of the work-item details and the aggregated context alone, so runs
\* that agree on these two and differ in the impact synthesizer's answer, or
\* in its failure and the fallback, issue the same standard-note request
C32_StandardNoteIgnoresImpact ==
    \A i \in CallsOfKind("standard_note") :
        /\ calls[i].request.content.prompt =
               Prompt("RELEASE_NOTE_GENERATOR",
                      <<DetailsDict(work_item_details), search_context>>)
        /\ calls[i].request.content.addendum = NoneV
        /\ calls[i].additional_info = NoneV
        /\ ~UsesRetrieval(calls[i])

\* the standard note asked for after the impact call failed
C32_Witness ==
    /\ Issued("standard_note")
    /\ "impact" \in failed
    /\ user_impact = ImpactFallback
    /\ search_context # StrV(<<>>)

\* the standard note asked for after the impact call answered
C32_WitnessAnswered ==
    /\ Issued("standard_note")
    /\ "impact" \notin failed
    /\ user_impact # ImpactFallback
    /\ search_context # StrV(<<>>)


\* ---- C33 ----

\* the answer's JSON object, from its opening brace to the end of the answer
NestedText == SubSeq(response, Len(shape.pre) + 1, Len(response))

\* C33: JSON extraction takes the text from the first "{" to the nearest
\* following "}" and parses only that: for an answer whose JSON object holds a
\* nested object before its own closing brace the extracted text ends at the
\* first inner "}", so parse_work_item_details and analyze return None and
\* parse_queries, plan and parse_keywords return [] and not the object's data
C33_NestedObjectTruncated ==
    shape.form = "nested" =>
        /\ json_loads(NestedText).ok
        /\ JsonMatch(response).found
        /\ JsonMatch(response).group =
               SubSeq(response, FindFrom(response, 1, LBRACE),
                      FindFrom(response, 1, RBRACE))
        /\ JsonMatch(response).group # NestedText
        /\ pfn \in {"parse_work_item_details", "analyze"} => parsed = Returns(NoneV)
        /\ pfn \in {"parse_queries", "plan", "parse_keywords"} =>
               parsed = Returns(ArrV(<<>>))

\* parse_queries applied to an answer whose object has a nested object before
\* its queries
C33_Witness ==
    /\ shape.form = "nested"
    /\ pfn = "parse_queries"
    /\ Contains(response, <<QUOTE, "queries", QUOTE>>)

\* parse_work_item_details applied to an answer whose object has a nested
\* object before its fields
C33_WitnessDetails ==
    /\ shape.form = "nested"
    /\ pfn = "parse_work_item_details"
    /\ Contains(response, <<QUOTE, "ShortDescription", QUOTE>>)


\* ---- C34 ----

\* the activity runs the per-item pipeline for the request
SingleRun == ActivityChose /\ Truthy(instance.single)

\* C34: through the activity a single-mode run has internal-documentation mode
\* and keyword removal disabled: no RAG note call, keyword extraction call,
\* product or internal lookup or rewrite call is issued, the request's
\* documentation value selects the retrieval scope and nothing else, and the
\* variant map returned never holds "RAG_ReleaseNote"
C34_ActivityDisablesInternalModes ==
    SingleRun =>
        /\ ~use_internal_doc
        /\ ~remove_internal_keywords
        /\ \A i \in 1..Len(calls) :
              /\ calls[i].kind \in {"analysis", "queries", "retrieval", "impact",
                                    "standard_note"}
              /\ calls[i].request.extra_body.t = "azure_search" =>
                    /\ calls[i].kind = "retrieval"
                    /\ calls[i].request.extra_body.semantic_configuration =
                           get_semantic_config(instance.documentation).v
        /\ "RAG_ReleaseNote" \notin DOMAIN release_notes
        /\ result # NoneV => "RAG_ReleaseNote" \notin DOMAIN result.release_notes

\* a finished single-mode run for a request that names its documentation
C34_Witness ==
    /\ SingleRun
    /\ pc = "done"
    /\ Truthy(instance.documentation)
    /\ result # NoneV
    /\ "ReleaseNote" \in DOMAIN result.release_notes
    /\ Issued("retrieval")


\* ---- C35 ----

\* a well-named single-mode request whose payload is an empty object or an
\* empty list
EmptyPayloadRequest ==
    /\ apc # "none"
    /\ validate_function_name(function_name)
    /\ params.kind = "return"
    /\ params.val.t = "obj"
    /\ DictGet(params.val, <<"single">>, NoneV) = LitV("true")
    /\ DictGet(params.val, <<"payload">>, NoneV) \in {ObjV(<<>>), ArrV(<<>>)}

\* C35: a single-mode request whose payload is not null but empty passes the
\* boundary validation, and the pipeline rejects it before any stage:
\* generate_release_notes returns None without issuing a call and the activity
\* returns the fixed failure string
C35_EmptyPayloadRejectedInPipeline ==
    EmptyPayloadRequest =>
        /\ validate_and_parse_request(params).ok
        /\ apc # "http" => http_response.status # 400
        /\ calls = <<>>
        /\ pc \in {"idle", "start", "done"}
        /\ pc = "done" =>
              /\ result = NoneV
              /\ apc \in {"returned", "completed"} =>
                    activity_result =
                        StrV(<<"Failed to generate release note - no result returned">>)

\* the orchestration of such a request, completed
C35_Witness ==
    /\ EmptyPayloadRequest
    /\ apc = "completed"
    /\ pc = "done"
    /\ http_response.status = 202
    /\ orchestration_output =
           StrV(<<"Failed to generate release note - no result returned">>)


\* ---- C36 ----

\* the invocation is over: the generator called directly has returned, the
\* HTTP trigger has answered without a run, or the orchestration is complete
Terminated ==
    \/ apc = "none" /\ pc = "done"
    \/ apc = "responded"
    \/ apc = "completed"

\* the most calls a run can issue: analysis, planning, one per query, impact,
\* two notes, extraction, two per keyword and the rewrite
CallBudget == 7 + Len(ItemsOf(queries)) + 2 * Len(ItemsOf(keywords))

\* what an invocation that is over returns: a variant map with a note or None
\* from the generator, a string from the activity
ReturnsNoteOrFailure ==
    /\ apc = "none" /\ pc = "done" =>
          \/ result = NoneV
          \/ "ReleaseNote" \in DOMAIN result.release_notes
    /\ apc = "completed" => orchestration_output.t = "str"

\* C36: every pipeline invocation terminates: with every call returning or
\* raising, a single-mode run and a bulk run issue finitely many calls and
\* reach a final state that returns a note or a failure value
C36_InvocationTerminates ==
    /\ <>Terminated
    /\ [](Len(calls) <= CallBudget)
    /\ []ReturnsNoteOrFailure

\* a single-mode run that went through queries and keywords to its end
C36_Witness ==
    /\ apc = "none"
    /\ pc = "done"
    /\ Len(CallSeq("retrieval")) = MaxQueries
    /\ Len(CallSeq("product_lookup")) = MaxKeywords
    /\ Issued("rewrite")

\* a bulk run at its end
C36_WitnessBulk ==
    /\ apc = "completed"
    /\ Issued("bulk")


\* ---- C37 ----

\* equality of two Python values, None and the null of a JSON text being one
SameValue(a, b) == a = b \/ (IsNone(a) /\ IsNone(b))

SameInput(a, b) ==
    /\ a.t = "input" /\ b.t = "input"
    /\ a.single = b.single
    /\ SameValue(a.payload, b.payload)
    /\ SameValue(a.documentation, b.documentation)

\* C37: WorkItemInput round-trips through its serialization: for every
\* WorkItemInput x, from_dict(to_dict(x)) and from_json(to_json(x)) equal x in
\* mode flag, payload and documentation; a dictionary without a "single" key
\* deserializes to single = false
C37_WorkItemInputRoundTrips ==
    /\ pfn = "from_dict(to_dict)" => SameInput(parsed.val, shape.x)
    /\ pfn = "from_json(to_json)" =>
           parsed.kind = "return" /\ SameInput(parsed.val, shape.x)
    /\ pfn = "from_dict" /\ ~HasKey(shape.x, "single") =>
           parsed.val.single = LitV("false")

\* an input with a nested payload and a documentation value, back from JSON
C37_Witness ==
    /\ pfn = "from_json(to_json)"
    /\ parsed.kind = "return"
    /\ parsed.val.documentation # NoneV
    /\ HasKey(parsed.val.payload, "Tags")
    /\ parsed.val.single = LitV("true")

\* a dictionary without a "single" key, deserialized
C37_WitnessNoSingle ==
    /\ pfn = "from_dict"
    /\ ~HasKey(shape.x, "single")
    /\ HasKey(shape.x, "payload")

=============================================================================
